---- MODULE Spec2Model ----
(***************************************************************************)
(* Activity-tracking grid of higher-pleasures: the year skeleton written   *)
(* by initialize_year_structure, the header reconciliation of              *)
(* update_activities_header and the read-modify-write row upsert of        *)
(* process_new_entry_sheets, over a sheet reached through the Google       *)
(* Sheets values API (get / update / append / batchClear).                 *)
(*                                                                         *)
(* A sheet is a sequence of rows, a row a sequence of cell texts as the    *)
(* values API returns them: blank cells read "", trailing blank cells and  *)
(* trailing blank rows are not returned.  Durations are counted in whole   *)
(* units (the code adds floats); a number stored in a cell reads back as   *)
(* its decimal text.                                                       *)
(***************************************************************************)
EXTENDS Integers, Sequences, FiniteSets, TLC

----------------------------------------------------------------------------
(* Calendar: datetime(year, 1, 1), timedelta(days=1), isocalendar(),       *)
(* strftime("%A, %B %-d") and strftime("%A, %B %d").  A date is <<y,m,d>>. *)

IsLeap(y) == (y % 4 = 0) /\ ((y % 100 # 0) \/ (y % 400 = 0))

DaysInMonth(y, m) ==
    IF m = 2 THEN (IF IsLeap(y) THEN 29 ELSE 28)
    ELSE IF m \in {4, 6, 9, 11} THEN 30 ELSE 31

RECURSIVE DaysBeforeMonth(_, _)
DaysBeforeMonth(y, m) ==
    IF m = 1 THEN 0 ELSE DaysBeforeMonth(y, m - 1) + DaysInMonth(y, m - 1)

DaysBeforeYear(y) ==
    (y - 1) * 365 + ((y - 1) \div 4) - ((y - 1) \div 100) + ((y - 1) \div 400)

\* proleptic Gregorian ordinal, 0001-01-01 = 1
Ordinal(date) == DaysBeforeYear(date[1]) + DaysBeforeMonth(date[1], date[2]) + date[3]

\* date.weekday(): Monday = 0 .. Sunday = 6
Weekday(date) == (Ordinal(date) + 6) % 7

\* current_date += timedelta(days=1)
NextDay(date) ==
    IF date[3] < DaysInMonth(date[1], date[2]) THEN <<date[1], date[2], date[3] + 1>>
    ELSE IF date[2] < 12 THEN <<date[1], date[2] + 1, 1>>
    ELSE <<date[1] + 1, 1, 1>>

\* ordinal of the Monday that starts ISO week 1 of year y
IsoWeek1Monday(y) ==
    LET firstday == DaysBeforeYear(y) + 1
        firstweekday == (firstday + 6) % 7
        week1monday == firstday - firstweekday
    IN  IF firstweekday > 3 THEN week1monday + 7 ELSE week1monday

\* current_date.isocalendar()[1]
IsoWeekNumber(date) ==
    LET today == Ordinal(date)
        y == date[1]
        delta == today - IsoWeek1Monday(y)
    IN  IF delta < 0
        THEN ((today - IsoWeek1Monday(y - 1)) \div 7) + 1
        ELSE IF (delta \div 7) >= 52 /\ today >= IsoWeek1Monday(y + 1)
             THEN 1
             ELSE (delta \div 7) + 1

DayNames == <<"Monday", "Tuesday", "Wednesday", "Thursday", "Friday",
              "Saturday", "Sunday">>

MonthNames == <<"January", "February", "March", "April", "May", "June",
                "July", "August", "September", "October", "November",
                "December">>

\* mutant: the month is left out of the label (strftime("%A, %-d"))
WriteLabel_without_month(date) ==
    DayNames[Weekday(date) + 1] \o ", " \o ToString(date[3])

\* strftime("%A, %B %-d"): day of month without padding
WriteLabel(date) ==
    DayNames[Weekday(date) + 1] \o ", " \o MonthNames[date[2]] \o " "
        \o ToString(date[3])

\* strftime("%A, %B %d"): day of month zero-padded to two digits
LookupLabel(date) ==
    DayNames[Weekday(date) + 1] \o ", " \o MonthNames[date[2]] \o " "
        \o (IF date[3] < 10 THEN "0" \o ToString(date[3]) ELSE ToString(date[3]))

\* f"Week {week_number}"
WeekLabel(week_number) == "Week " \o ToString(week_number)

\* mutant: current_week is never updated (current_week = week_number dropped)
GenStep_week_not_tracked(year, st) ==
    IF st.date[1] # year THEN st
    ELSE LET week_number == IsoWeekNumber(st.date)
             withHeader == IF week_number # st.week
                           THEN Append(st.out, WeekLabel(week_number))
                           ELSE st.out
         IN  [date |-> NextDay(st.date), week |-> st.week,
              out |-> Append(withHeader, WriteLabel(st.date))]

\* One pass of the loop body of _generate_dates over the generator state
\* [date, week, out]; current_week = None is 0 here (no ISO week is 0).  Once
\* current_date.year # year the loop has ended and the state stays as it is.
GenStep(year, st) ==
    IF st.date[1] # year THEN st
    ELSE LET week_number == IsoWeekNumber(st.date)
             withHeader == IF week_number # st.week
                           THEN Append(st.out, WeekLabel(week_number))
                           ELSE st.out
         IN  [date |-> NextDay(st.date),
              week |-> week_number,
              out  |-> Append(withHeader, WriteLabel(st.date))]

\* n passes of the loop body, split in halves to keep the evaluation shallow
RECURSIVE GenLoop(_, _, _)
GenLoop(year, st, n) ==
    IF st.week < 0 \/ n = 0 THEN st    \* st.week >= 0 always: st is read first
    ELSE IF n = 1 THEN GenStep(year, st)
    ELSE GenLoop(year, GenLoop(year, st, n \div 2), n - (n \div 2))

\* no year has more days than this: the while loop has ended by then
MaxDaysInYear == 366

\* [date_str for _, date_str in self._generate_dates(year)]
_generate_dates(year) ==
    GenLoop(year, [date |-> <<year, 1, 1>>, week |-> 0, out |-> <<>>],
            MaxDaysInYear).out

\* the years the model initializes a sheet for
Years == {2024, 2025}

\* _generate_dates of each of them, computed once
GeneratedDates == [year \in Years |-> _generate_dates(year)]

----------------------------------------------------------------------------
(* The sheet behind the values API.                                        *)

Min(a, b) == IF a < b THEN a ELSE b
Max(a, b) == IF a > b THEN a ELSE b

Range(seq) == {seq[i] : i \in 1..Len(seq)}

\* index of the last cell that is not blank, 0 when there is none
LastFilled(row) ==
    IF \A i \in 1..Len(row) : row[i] = "" THEN 0
    ELSE CHOOSE i \in 1..Len(row) :
            row[i] # "" /\ \A j \in (i + 1)..Len(row) : row[j] = ""

\* a row as the API returns it: trailing blank cells are not part of it
TrimRow(row) == SubSeq(row, 1, LastFilled(row))

\* index of the last row that holds a value, 0 when there is none
LastRow(g) ==
    IF Len(g) = 0 THEN 0
    ELSE IF LastFilled(g[Len(g)]) # 0 THEN Len(g)
    ELSE IF \A i \in 1..Len(g) : LastFilled(g[i]) = 0 THEN 0
    ELSE CHOOSE i \in 1..Len(g) :
            LastFilled(g[i]) # 0 /\ \A j \in (i + 1)..Len(g) : LastFilled(g[j]) = 0

\* the stored sheet: every row trimmed, trailing blank rows dropped
Normalize(g) == [i \in 1..LastRow(g) |-> TrimRow(g[i])]

\* values().get(range="A:A")["values"]: one list per row up to the last row
\* with a value in column A, [] for a row whose column A is blank
ColumnA(g) ==
    LET colA == [i \in 1..Len(g) |->
                    IF Len(g[i]) >= 1 /\ g[i][1] # "" THEN <<g[i][1]>> ELSE <<>>]
    IN  SubSeq(colA, 1, LastRow(colA))

\* values().update(range="A{row}:...", body={"values": [values]}): the cells
\* 1..len(values) of the row are overwritten, the cells after them are kept
WriteRow(g, row_index, values) ==
    LET rows == Max(Len(g), row_index)
        old == IF row_index <= Len(g) THEN g[row_index] ELSE <<>>
        new == [j \in 1..Max(Len(old), Len(values)) |->
                   IF j <= Len(values) THEN values[j] ELSE old[j]]
        written == [i \in 1..rows |->
                       IF i = row_index THEN TrimRow(new)
                       ELSE IF i <= Len(g) THEN g[i] ELSE <<>>]
    IN  SubSeq(written, 1, LastRow(written))

\* chr(65 + n) is a column letter only up to chr(90) = "Z"; any other end of
\* range is rejected by the API and the call raises SheetError
RangeOK(n) == 65 + n <= 90

\* rows and columns of the range "A1:Z1000" that clear_sheet wipes
ClearRows == 1000
ClearCols == 26

\* columns of the range "A1:Z1" that get_activity_columns reads
HeaderCols == 26

\* rows per append call
BATCH_SIZE == 50

\* mutant: only column A is cleared (clear_range "A1:A1000")
clear_sheet_column_a(g) ==
    Normalize([i \in 1..Len(g) |->
                  [j \in 1..Len(g[i]) |->
                      IF i <= ClearRows /\ j <= 1 THEN "" ELSE g[i][j]]])

\* values().batchClear(ranges=["A1:Z1000"])
clear_sheet(g) ==
    Normalize([i \in 1..Len(g) |->
                  [j \in 1..Len(g[i]) |->
                      IF i <= ClearRows /\ j <= ClearCols THEN "" ELSE g[i][j]]])

\* values().append(range="A1", insertDataOption="INSERT_ROWS"): the rows go
\* below the last row of the data
append_to_sheet_formatted(g, values) == g \o values

\* mutant: the header row is not skipped (values[0:] for values[1:])
get_current_dates_with_header(g) ==
    LET values == ColumnA(g)
        kept == SelectSeq(values, LAMBDA row : row # <<>>)
    IN  [i \in 1..Len(kept) |-> kept[i][1]]

\* get_current_dates: [row[0] for row in result.get("values", [])[1:] if row]
get_current_dates(g) ==
    LET values == ColumnA(g)
        below == SubSeq(values, 2, Len(values))
        kept == SelectSeq(below, LAMBDA row : row # <<>>)
    IN  [i \in 1..Len(kept) |-> kept[i][1]]

\* mutant: the 0-based position is returned (return i for return i + 1)
get_date_row_index_zero_based(g, date) ==
    LET date_str == LookupLabel(date)
        values == ColumnA(g)
        hits == {i \in 1..Len(values) : values[i] # <<>> /\ values[i][1] = date_str}
    IN  IF hits = {} THEN 0
        ELSE (CHOOSE i \in hits : \A j \in hits : i <= j) - 1

\* mutant: the text searched for is the header label of the date's ISO week
\* (f"Week {date.isocalendar()[1]}") where the code searches the date's label
get_date_row_index_week_header(g, date) ==
    LET date_str == WeekLabel(IsoWeekNumber(date))
        values == ColumnA(g)
        hits == {i \in 1..Len(values) : values[i] # <<>> /\ values[i][1] = date_str}
    IN  IF hits = {} THEN 0
        ELSE CHOOSE i \in hits : \A j \in hits : i <= j

\* get_date_row_index: 1-based index of the first row whose column A equals
\* date.strftime("%A, %B %d"); None is 0 here
get_date_row_index(g, date) ==
    LET date_str == LookupLabel(date)
        values == ColumnA(g)
        hits == {i \in 1..Len(values) : values[i] # <<>> /\ values[i][1] = date_str}
    IN  IF hits = {} THEN 0
        ELSE CHOOSE i \in hits : \A j \in hits : i <= j

\* get_row_values: the cells of the row, [] when the row holds nothing
get_row_values(g, row_index) ==
    IF row_index <= Len(g) THEN g[row_index] ELSE <<>>

\* mutant: the header is read one column short of what update_header_row
\* can write (range "A1:X1")
get_activity_columns_to_X1(g) ==
    LET headers == IF Len(g) >= 1
                   THEN TrimRow(SubSeq(g[1], 1, Min(Len(g[1]), HeaderCols - 2)))
                   ELSE <<>>
    IN  IF Len(headers) > 1 THEN SubSeq(headers, 2, Len(headers)) ELSE <<>>

\* get_activity_columns: headers[1:] of the range A1:Z1
get_activity_columns(g) ==
    LET headers == IF Len(g) >= 1
                   THEN TrimRow(SubSeq(g[1], 1, Min(Len(g[1]), HeaderCols)))
                   ELSE <<>>
    IN  IF Len(headers) > 1 THEN SubSeq(headers, 2, Len(headers)) ELSE <<>>

\* mutant: the last activity is written after the last filled header cell
\* (an append to row 1) where the code rewrites the header from A1
update_header_row_appends(g, activities) ==
    LET current == IF Len(g) >= 1 /\ TrimRow(g[1]) # <<>> THEN TrimRow(g[1])
                   ELSE <<"Date">>
        header_row == IF activities = <<>> THEN current
                      ELSE current \o <<activities[Len(activities)]>>
    IN  IF RangeOK(Len(header_row))
        THEN [grid |-> WriteRow(g, 1, header_row), ok |-> TRUE]
        ELSE [grid |-> g, ok |-> FALSE]

\* update_header_row(activities): ["Date"] + activities written from A1;
\* [ok] is FALSE when the range is rejected (SheetError), the sheet then unchanged
update_header_row(g, activities) ==
    LET header_row == <<"Date">> \o activities
    IN  IF RangeOK(Len(header_row))
        THEN [grid |-> WriteRow(g, 1, header_row), ok |-> TRUE]
        ELSE [grid |-> g, ok |-> FALSE]

\* mutant: of the row only its last cell is written, the cells before it
\* are left as they stand in the sheet
update_row_last_cell(g, row_index, values) ==
    LET old == IF row_index <= Len(g) THEN g[row_index] ELSE <<>>
        merged == [j \in 1..Len(values) |->
                      IF j = Len(values) THEN values[j]
                      ELSE IF j <= Len(old) THEN old[j] ELSE ""]
    IN  IF RangeOK(Len(values))
        THEN [grid |-> WriteRow(g, row_index, merged), ok |-> TRUE]
        ELSE [grid |-> g, ok |-> FALSE]

\* mutant: the row below the addressed one is written (A{row_index + 1})
update_row_one_below(g, row_index, values) ==
    IF RangeOK(Len(values))
    THEN [grid |-> WriteRow(g, row_index + 1, values), ok |-> TRUE]
    ELSE [grid |-> g, ok |-> FALSE]

\* update_row(row_index, values)
update_row(g, row_index, values) ==
    IF RangeOK(Len(values))
    THEN [grid |-> WriteRow(g, row_index, values), ok |-> TRUE]
    ELSE [grid |-> g, ok |-> FALSE]

\* mutant: the header is rewritten with the new activity alone
\* (activities = [activity])
update_activities_header_replaces(g, activity) ==
    LET existing_activities == get_activity_columns(g)
    IN  IF activity \notin Range(existing_activities)
        THEN LET w == update_header_row(g, <<activity>>)
             IN  [grid |-> w.grid, ok |-> w.ok,
                  calls |-> <<"get_activity_columns", "update_header_row">>]
        ELSE [grid |-> g, ok |-> TRUE, calls |-> <<"get_activity_columns">>]

\* mutant: the new activity is put before the existing ones
update_activities_header_prepends(g, activity) ==
    LET existing_activities == get_activity_columns(g)
    IN  IF activity \notin Range(existing_activities)
        THEN LET w == update_header_row(g, <<activity>> \o existing_activities)
             IN  [grid |-> w.grid, ok |-> w.ok,
                  calls |-> <<"get_activity_columns", "update_header_row">>]
        ELSE [grid |-> g, ok |-> TRUE, calls |-> <<"get_activity_columns">>]

\* mutant: the activity is appended without the test of its presence
update_activities_header_always_appends(g, activity) ==
    LET existing_activities == get_activity_columns(g)
        w == update_header_row(g, existing_activities \o <<activity>>)
    IN  [grid |-> w.grid, ok |-> w.ok,
         calls |-> <<"get_activity_columns", "update_header_row">>]

\* update_activities_header(activity): the header is rewritten only when the
\* activity is not in it; [calls] are the gateway calls made, in order
update_activities_header(g, activity) ==
    LET existing_activities == get_activity_columns(g)
    IN  IF activity \notin Range(existing_activities)
        THEN LET w == update_header_row(g, existing_activities \o <<activity>>)
             IN  [grid |-> w.grid, ok |-> w.ok,
                  calls |-> <<"get_activity_columns", "update_header_row">>]
        ELSE [grid |-> g, ok |-> TRUE, calls |-> <<"get_activity_columns">>]

----------------------------------------------------------------------------
(* The tracker: process_new_entry_sheets and what it calls.                *)

\* largest magnitude a cell holds in the model
MaxCell == 8

Numbers == (0 - MaxCell)..MaxCell

\* the text a stored number reads back as
NumText(n) == ToString(n)

IsNumText(text) == \E n \in Numbers : NumText(n) = text

\* float(cell or 0): a blank cell counts 0
FloatOrZero(text) ==
    IF text = "" THEN 0 ELSE CHOOSE n \in Numbers : NumText(n) = text

\* activities.index(activity), 0-based
IndexOf(activities, activity) ==
    (CHOOSE i \in 1..Len(activities) :
        activities[i] = activity /\ \A j \in 1..(i - 1) : activities[j] # activity) - 1

\* mutant: the padding stops one cell short ([0] * (required_length - len(values)))
_ensure_row_length_one_short(values, required_length) ==
    values \o [i \in 1..Max(0, required_length - Len(values)) |-> NumText(0)]

\* _ensure_row_length: values + [0] * (required_length + 1 - len(values))
_ensure_row_length(values, required_length) ==
    values \o [i \in 1..Max(0, required_length + 1 - Len(values)) |-> NumText(0)]

\* _update_activity_duration(row_index, activity, duration)
_update_activity_duration(g, row_index, activity, duration) ==
    LET current_values == get_row_values(g, row_index)
        activities == get_activity_columns(g)
        reads == <<"get_row_values", "get_activity_columns">>
    IN  IF activity \notin Range(activities)
        THEN [grid |-> g, result |-> "value_error", calls |-> reads]
        ELSE
        LET activity_index == IndexOf(activities, activity) + 1
            padded == _ensure_row_length(current_values, activity_index)
            cell == padded[activity_index + 1]
        IN  IF cell # "" /\ ~IsNumText(cell)
            THEN [grid |-> g, result |-> "value_error", calls |-> reads]
            ELSE
            LET current_duration == FloatOrZero(cell)
                new_values == [padded EXCEPT ![activity_index + 1] =
                                  NumText(current_duration + duration)]
                w == update_row(g, row_index, new_values)
            IN  [grid |-> w.grid,
                 result |-> IF w.ok THEN "ok" ELSE "sheet_error",
                 calls |-> reads \o <<"update_row">>]

\* mutant: a date without a row gets one appended, and the upsert goes on
process_new_entry_sheets_self_healing(g, date, activity, duration) ==
    IF duration < 0
    THEN [grid |-> g, result |-> "negative_duration", calls |-> <<>>]
    ELSE
    LET h == update_activities_header(g, activity)
        found == get_date_row_index(h.grid, date)
        healed == IF found = 0
                  THEN append_to_sheet_formatted(h.grid, <<<<LookupLabel(date)>>>>)
                  ELSE h.grid
        u == _update_activity_duration(healed, get_date_row_index(healed, date),
                                       activity, duration)
    IN  IF ~h.ok
        THEN [grid |-> h.grid, result |-> "sheet_error", calls |-> h.calls]
        ELSE [grid |-> u.grid, result |-> u.result,
              calls |-> h.calls \o <<"get_date_row_index">> \o u.calls]

\* process_new_entry_sheets(date, activity, duration)
process_new_entry_sheets(g, date, activity, duration) ==
    IF duration < 0
    THEN [grid |-> g, result |-> "negative_duration", calls |-> <<>>]
    ELSE
    LET h == update_activities_header(g, activity)
    IN  IF ~h.ok
        THEN [grid |-> h.grid, result |-> "sheet_error", calls |-> h.calls]
        ELSE
        LET date_row_index == get_date_row_index(h.grid, date)
            c1 == h.calls \o <<"get_date_row_index">>
        IN  IF date_row_index = 0
            THEN [grid |-> h.grid, result |-> "row_not_found", calls |-> c1]
            ELSE
            LET u == _update_activity_duration(h.grid, date_row_index, activity, duration)
            IN  [grid |-> u.grid, result |-> u.result, calls |-> c1 \o u.calls]

\* mutant: only the lengths are compared, against the rows with the header
\* counted in (len(current) == len(expected) + 1)
_validate_current_structure_counts_header(current, expected) ==
    Len(current) = Len(expected) + 1

\* mutant: the lengths are not compared; zip stops at the shorter list, so a
\* beginning of the expected labels passes
_validate_current_structure_zip_only(current, expected) ==
    \A i \in 1..Min(Len(current), Len(expected)) : current[i] = expected[i]

\* _validate_current_structure(current, expected)
_validate_current_structure(current, expected) ==
    Len(current) = Len(expected)
    /\ \A i \in 1..Len(current) : current[i] = expected[i]

\* the append calls of _perform_initialization from batch number k on: full
\* batches of BATCH_SIZE rows, then the remaining rows when there are any
RECURSIVE AppendBatches(_, _, _)
AppendBatches(g, rows, k) ==
    LET first == (k - 1) * BATCH_SIZE + 1
        last_ == Min(k * BATCH_SIZE, Len(rows))
    IN  IF first > Len(rows) THEN [grid |-> g, calls |-> <<>>, sizes |-> <<>>]
        ELSE LET rest == AppendBatches(
                            append_to_sheet_formatted(g, SubSeq(rows, first, last_)),
                            rows, k + 1)
             IN  [grid |-> rest.grid,
                  calls |-> <<"append_to_sheet_formatted">> \o rest.calls,
                  sizes |-> <<last_ - first + 1>> \o rest.sizes]

\* mutant: the rows left in the batch after the loop are not appended (the
\* final "if batch:" is missing)
_perform_initialization_drops_remainder(g, expected) ==
    LET cleared == clear_sheet(g)
        h == update_header_row(cleared, <<>>)
        full == (Len(expected) \div BATCH_SIZE) * BATCH_SIZE
        a == AppendBatches(h.grid, [i \in 1..full |-> <<expected[i]>>], 1)
    IN  [grid |-> a.grid, result |-> "ok",
         calls |-> <<"clear_sheet", "update_header_row">> \o a.calls,
         sizes |-> a.sizes]

\* _perform_initialization(year): clear, header, batched appends; [sizes] are
\* the numbers of rows of the append calls, in call order
_perform_initialization(g, expected) ==
    LET cleared == clear_sheet(g)
        h == update_header_row(cleared, <<>>)
        a == AppendBatches(h.grid, [i \in 1..Len(expected) |-> <<expected[i]>>], 1)
    IN  [grid |-> a.grid, result |-> "ok",
         calls |-> <<"clear_sheet", "update_header_row">> \o a.calls,
         sizes |-> a.sizes]

\* mutant: force is not looked at, a structure in place is always kept
initialize_year_structure_ignores_force(g, year, force) ==
    LET current_dates == get_current_dates(g)
        expected_dates == GeneratedDates[year]
    IN  IF _validate_current_structure(current_dates, expected_dates)
        THEN [grid |-> g, result |-> "ok", calls |-> <<"get_current_dates">>]
        ELSE LET p == _perform_initialization(g, expected_dates)
             IN  [grid |-> p.grid, result |-> p.result,
                  calls |-> <<"get_current_dates">> \o p.calls]

\* initialize_year_structure(year, force)
initialize_year_structure(g, year, force) ==
    LET current_dates == get_current_dates(g)
        expected_dates == GeneratedDates[year]
    IN  IF ~force /\ _validate_current_structure(current_dates, expected_dates)
        THEN [grid |-> g, result |-> "ok", calls |-> <<"get_current_dates">>]
        ELSE LET p == _perform_initialization(g, expected_dates)
             IN  [grid |-> p.grid, result |-> p.result,
                  calls |-> (IF force THEN <<>> ELSE <<"get_current_dates">>)
                            \o p.calls]

----------------------------------------------------------------------------
(* The first script, higher_pleasures.py: one class holding the same       *)
(* gateway calls, with its own upsert and initializer.  Its                *)
(* update_activities_header, get_date_row_index, get_activity_columns and  *)
(* update_row read as the ones above.                                      *)

\* get_expected_dates(year): (expected, rows_batch), the labels and the
\* one-cell rows to append
get_expected_dates(year) ==
    LET expected == GenLoop(year, [date |-> <<year, 1, 1>>, week |-> 0, out |-> <<>>],
                            MaxDaysInYear).out
    IN  [expected |-> expected,
         rows_batch |-> [i \in 1..Len(expected) |-> <<expected[i]>>]]

ExpectedDates == [year \in Years |-> get_expected_dates(year)]

\* while len(current_values) <= activity_index: current_values.append(0)
RECURSIVE legacy_pad_row(_, _)
legacy_pad_row(current_values, activity_index) ==
    IF Len(current_values) <= activity_index
    THEN legacy_pad_row(Append(current_values, NumText(0)), activity_index)
    ELSE current_values

\* process_new_entry(date, activity, duration) of the first script: no test
\* of the duration, no test of date_row_index; get_row_values(None) asks for
\* the range "None:None", which the API rejects
legacy_process_new_entry(g, date, activity, duration) ==
    LET h == update_activities_header(g, activity)
    IN  IF ~h.ok
        THEN [grid |-> h.grid, result |-> "sheet_error", calls |-> h.calls]
        ELSE
        LET date_row_index == get_date_row_index(h.grid, date)
            c1 == h.calls \o <<"get_date_row_index", "get_row_values">>
        IN  IF date_row_index = 0
            THEN [grid |-> h.grid, result |-> "sheet_error", calls |-> c1]
            ELSE
            LET current_values == get_row_values(h.grid, date_row_index)
                activities == get_activity_columns(h.grid)
                c2 == c1 \o <<"get_activity_columns">>
            IN  IF activity \notin Range(activities)
                THEN [grid |-> h.grid, result |-> "value_error", calls |-> c2]
                ELSE
                LET activity_index == IndexOf(activities, activity) + 1
                    present == Len(current_values) > activity_index
                IN  IF present /\ current_values[activity_index + 1] # ""
                       /\ ~IsNumText(current_values[activity_index + 1])
                    THEN [grid |-> h.grid, result |-> "value_error", calls |-> c2]
                    ELSE
                    LET new_values ==
                            IF present
                            THEN [current_values EXCEPT ![activity_index + 1] =
                                     NumText(FloatOrZero(@) + duration)]
                            ELSE [legacy_pad_row(current_values, activity_index)
                                     EXCEPT ![activity_index + 1] = NumText(duration)]
                        w == update_row(h.grid, date_row_index, new_values)
                    IN  [grid |-> w.grid,
                         result |-> IF w.ok THEN "ok" ELSE "sheet_error",
                         calls |-> c2 \o <<"update_row">>]

\* the rebuild of initialize_year_structure of the first script: clear,
\* header, then rows_to_write[i : i + 50] appended for i in range(0, len, 50)
legacy_perform_initialization(g, rows_to_write) ==
    LET h == update_header_row(clear_sheet(g), <<>>)
        a == AppendBatches(h.grid, rows_to_write, 1)
    IN  [grid |-> a.grid, result |-> "ok",
         calls |-> <<"clear_sheet", "update_header_row">> \o a.calls,
         sizes |-> a.sizes]

\* initialize_year_structure(year, force) of the first script
legacy_initialize_year_structure(g, year, force) ==
    LET expected_dates == ExpectedDates[year].expected
        rows_to_write == ExpectedDates[year].rows_batch
        current_dates == get_current_dates(g)
        in_place == /\ Len(current_dates) = Len(expected_dates)
                    /\ \A i \in 1..Len(current_dates) :
                          current_dates[i] = expected_dates[i]
        read == IF force THEN <<>> ELSE <<"get_current_dates">>
    IN  IF ~force /\ in_place
        THEN [grid |-> g, result |-> "ok", calls |-> read]
        ELSE LET p == legacy_perform_initialization(g, rows_to_write)
             IN  [grid |-> p.grid, result |-> p.result, calls |-> read \o p.calls]

----------------------------------------------------------------------------
(* Inputs of the model.                                                    *)

\* a day below the 10th, a day from the 10th on, and a day of another year
Dates == {<<2024, 1, 5>>, <<2024, 1, 15>>, <<2025, 1, 15>>}

Activities == {"Running", "Reading"}

Durations == {-1, 1, 2}

\* calls made in one behaviour
MaxSteps == 2

\* the year skeleton as initialization leaves it
Skeleton(year) ==
    <<<<"Date">>>> \o [i \in 1..Len(GeneratedDates[year]) |-> <<GeneratedDates[year][i]>>]

Skeleton2024 == Skeleton(2024)

\* the 2024 sheet with two activities and one duration entered, the cell
\* before it blank
EnteredSheet ==
    [i \in 1..Len(Skeleton2024) |->
        IF i = 1 THEN <<"Date", "Running", "Reading">>
        ELSE IF Skeleton2024[i][1] = WriteLabel(<<2024, 1, 15>>)
             THEN <<Skeleton2024[i][1], "", "2">>
             ELSE Skeleton2024[i]]

\* sheets the program may be pointed at: blank; initialized; an initialization
\* cut short after its first batch; one with a blank row among the labels;
\* one with hand-entered durations and a blank cell between them
StartGrids ==
    { <<>>,
      Skeleton2024,
      SubSeq(Skeleton2024, 1, 1 + BATCH_SIZE),
      SubSeq(Skeleton2024, 1, 2) \o <<<<>>>> \o SubSeq(Skeleton2024, 3, Len(Skeleton2024)),
      EnteredSheet }

NoCall ==
    [op |-> "none", date |-> <<0, 0, 0>>, activity |-> "", duration |-> 0,
     year |-> 0, force |-> FALSE, result |-> "", calls |-> <<>>]

----------------------------------------------------------------------------
VARIABLES
    grid,   \* the sheet
    last,   \* the last call: its arguments, its outcome, its gateway calls
    prev,   \* the call before it
    steps,  \* calls made so far
    probe,  \* a helper applied on its own: its arguments and what it returned
    sheets,           \* the sheets of the spreadsheet when clients share it
    clients,          \* the upsert each client is in: arguments, position, locals
    sheets_at_start,  \* the sheets as they were before the clients started
    tracker,          \* the ActivityTracker object: its fields, and the ledger behind it
    bot               \* the chat front end: conversations, temp_user_data, the users table

vars == <<grid, last, prev, steps, probe, sheets, clients, sheets_at_start, tracker,
          bot>>

concurrent == <<sheets, clients, sheets_at_start>>

\* no client is at work
Idle == sheets = <<>> /\ clients = <<>> /\ sheets_at_start = <<>>

\* no ActivityTracker has been constructed
NoTracker == [constructed |-> FALSE]

NoProbe == [fn |-> "none"]

\* no TelegramHandler has been built
NoBot == [started |-> FALSE]

Init ==
    /\ grid \in StartGrids
    /\ last = NoCall
    /\ prev = NoCall
    /\ steps = 0
    /\ Idle
    /\ tracker = NoTracker
    /\ bot = NoBot
    /\ probe = NoProbe

\* the durations of the row of the date stay within the numbers of the model
InBounds(g, date) ==
    LET i == get_date_row_index(g, date)
    IN  i # 0 => \A j \in 2..Len(g[i]) : g[i][j] = "" \/ IsNumText(g[i][j])

ProcessNewEntrySheets ==
    /\ steps < MaxSteps
    /\ \E date \in Dates, activity \in Activities, duration \in Durations :
        LET r == process_new_entry_sheets(grid, date, activity, duration)
        IN  /\ InBounds(r.grid, date)
            /\ grid' = r.grid
            /\ last' = [NoCall EXCEPT !.op = "process_new_entry_sheets",
                            !.date = date, !.activity = activity,
                            !.duration = duration, !.result = r.result,
                            !.calls = r.calls]
    /\ prev' = last
    /\ steps' = steps + 1
    /\ UNCHANGED <<probe, concurrent, tracker, bot>>

InitializeYearStructure ==
    /\ steps < MaxSteps
    /\ \E year \in Years, force \in BOOLEAN :
        LET r == initialize_year_structure(grid, year, force)
        IN  /\ grid' = r.grid
            /\ last' = [NoCall EXCEPT !.op = "initialize_year_structure",
                            !.year = year, !.force = force,
                            !.result = r.result, !.calls = r.calls]
    /\ prev' = last
    /\ steps' = steps + 1
    /\ UNCHANGED <<probe, concurrent, tracker, bot>>

Next ==
    \/ ProcessNewEntrySheets
    \/ InitializeYearStructure

Spec == Init /\ [][Next]_vars

----------------------------------------------------------------------------
(* The first script run against the same sheets.                           *)

LegacyProcessNewEntry ==
    /\ steps < MaxSteps
    /\ \E date \in Dates, activity \in Activities, duration \in Durations :
        LET r == legacy_process_new_entry(grid, date, activity, duration)
        IN  /\ InBounds(r.grid, date)
            /\ grid' = r.grid
            /\ last' = [NoCall EXCEPT !.op = "process_new_entry",
                            !.date = date, !.activity = activity,
                            !.duration = duration, !.result = r.result,
                            !.calls = r.calls]
    /\ prev' = last
    /\ steps' = steps + 1
    /\ UNCHANGED <<probe, concurrent, tracker, bot>>

LegacyInitializeYearStructure ==
    /\ steps < MaxSteps
    /\ \E year \in Years, force \in BOOLEAN :
        LET r == legacy_initialize_year_structure(grid, year, force)
        IN  /\ grid' = r.grid
            /\ last' = [NoCall EXCEPT !.op = "initialize_year_structure",
                            !.year = year, !.force = force,
                            !.result = r.result, !.calls = r.calls]
    /\ prev' = last
    /\ steps' = steps + 1
    /\ UNCHANGED <<probe, concurrent, tracker, bot>>

NextLegacy ==
    \/ LegacyProcessNewEntry
    \/ LegacyInitializeYearStructure

SpecLegacy == Init /\ [][NextLegacy]_vars

----------------------------------------------------------------------------
(* The row padding on its own: a row as get_row_values returns it and an   *)
(* activity_index, and the padded row that comes back.                     *)

\* longest run of duration cells in a row read back
MaxRowLen == 3

\* largest activity_index (the index of the last of MaxIndex activities)
MaxIndex == 4

CellTexts == {"", NumText(0), NumText(2)}

\* rows as the API returns them: no trailing blank cell
RowsRead ==
    {<<>>} \cup
    {<<WriteLabel(<<2024, 1, 15>>)>> \o cells :
        cells \in {c \in UNION {[1..n -> CellTexts] : n \in 0..MaxRowLen} :
                      TrimRow(c) = c}}

InitRow ==
    /\ grid = <<>>
    /\ last = NoCall
    /\ prev = NoCall
    /\ steps = 0
    /\ Idle
    /\ tracker = NoTracker
    /\ bot = NoBot
    /\ probe \in {[fn |-> "none", values |-> values, required_length |-> i,
                   out |-> <<>>] : values \in RowsRead, i \in 1..MaxIndex}

EnsureRowLength ==
    /\ probe.fn = "none"
    /\ probe' = [probe EXCEPT !.fn = "_ensure_row_length",
                     !.out = _ensure_row_length(probe.values, probe.required_length)]
    /\ UNCHANGED <<grid, last, prev, steps, concurrent, tracker, bot>>

LegacyPadRow ==
    /\ probe.fn = "none"
    /\ probe' = [probe EXCEPT !.fn = "legacy_pad_row",
                     !.out = legacy_pad_row(probe.values, probe.required_length)]
    /\ UNCHANGED <<grid, last, prev, steps, concurrent, tracker, bot>>

NextRow ==
    \/ EnsureRowLength
    \/ LegacyPadRow

SpecRow == InitRow /\ [][NextRow]_vars

----------------------------------------------------------------------------
(* The label generators on their own, year by year.                        *)

FirstYear == 2000
LastYear == 2040

InitLabels ==
    /\ grid = <<>>
    /\ last = NoCall
    /\ prev = NoCall
    /\ steps = 0
    /\ Idle
    /\ tracker = NoTracker
    /\ bot = NoBot
    /\ probe \in {[fn |-> "none", year |-> year, out |-> <<>>] :
                     year \in FirstYear..LastYear}

GenerateDates ==
    /\ probe.fn = "none"
    /\ probe' = [probe EXCEPT !.fn = "_generate_dates",
                     !.out = _generate_dates(probe.year)]
    /\ UNCHANGED <<grid, last, prev, steps, concurrent, tracker, bot>>

GetExpectedDates ==
    /\ probe.fn = "none"
    /\ probe' = [probe EXCEPT !.fn = "get_expected_dates",
                     !.out = get_expected_dates(probe.year).expected]
    /\ UNCHANGED <<grid, last, prev, steps, concurrent, tracker, bot>>

NextLabels ==
    \/ GenerateDates
    \/ GetExpectedDates

SpecLabels == InitLabels /\ [][NextLabels]_vars

----------------------------------------------------------------------------
(* Two clients of one spreadsheet (two bot or script processes), each in   *)
(* one process_new_entry_sheets.  Nothing orders their gateway calls, so   *)
(* one step here is one gateway call with the local work that follows it.  *)

Clients == {1, 2}

SheetNames == {"Alice", "Bob"}

ClientDates == {<<2024, 1, 15>>, <<2024, 1, 16>>}

\* a call of process_new_entry_sheets about to start
NewCall(sheet_name, date, activity, duration) ==
    [pc |-> "update_activities_header", sheet_name |-> sheet_name,
     date |-> date, activity |-> activity, duration |-> duration,
     activities |-> <<>>, date_row_index |-> 0, current_values |-> <<>>,
     current_duration |-> 0, result |-> ""]

InitClients ==
    /\ grid = <<>>
    /\ last = NoCall
    /\ prev = NoCall
    /\ steps = 0
    /\ probe = NoProbe
    /\ sheets \in {[n \in SheetNames |-> IF n = "Alice" THEN a ELSE Skeleton2024] :
                      a \in {Skeleton2024, EnteredSheet}}
    /\ sheets_at_start = sheets
    /\ tracker = NoTracker
    /\ bot = NoBot
    /\ clients \in {<<NewCall("Alice", <<2024, 1, 15>>, "Running", 1),
                      NewCall(n, date, activity, 2)>> :
                       n \in SheetNames, date \in ClientDates, activity \in Activities}

Done(c, result) == [c EXCEPT !.pc = "done", !.result = result]

\* the duration test, then update_activities_header up to its read of the header
ClientUpdateActivitiesHeader(p) ==
    LET c == clients[p] IN
    /\ c.pc = "update_activities_header"
    /\ LET existing_activities == get_activity_columns(sheets[c.sheet_name])
       IN  clients' = [clients EXCEPT ![p] =
               IF c.duration < 0 THEN Done(c, "negative_duration")
               ELSE IF c.activity \in Range(existing_activities)
                    THEN [c EXCEPT !.pc = "get_date_row_index"]
                    ELSE [c EXCEPT !.pc = "update_header_row",
                              !.activities = existing_activities \o <<c.activity>>]]
    /\ UNCHANGED <<grid, last, prev, steps, probe, sheets, sheets_at_start, tracker, bot>>

\* update_activities_header: the write of the header with the activity added
ClientUpdateHeaderRow(p) ==
    LET c == clients[p] IN
    /\ c.pc = "update_header_row"
    /\ LET w == update_header_row(sheets[c.sheet_name], c.activities)
       IN  /\ sheets' = [sheets EXCEPT ![c.sheet_name] = w.grid]
           /\ clients' = [clients EXCEPT ![p] =
                  IF w.ok THEN [c EXCEPT !.pc = "get_date_row_index"]
                  ELSE Done(c, "sheet_error")]
    /\ UNCHANGED <<grid, last, prev, steps, probe, sheets_at_start, tracker, bot>>

\* get_date_row_index and the test of its result
ClientGetDateRowIndex(p) ==
    LET c == clients[p] IN
    /\ c.pc = "get_date_row_index"
    /\ LET date_row_index == get_date_row_index(sheets[c.sheet_name], c.date)
       IN  clients' = [clients EXCEPT ![p] =
               IF date_row_index = 0 THEN Done(c, "row_not_found")
               ELSE [c EXCEPT !.pc = "get_row_values",
                         !.date_row_index = date_row_index]]
    /\ UNCHANGED <<grid, last, prev, steps, probe, sheets, sheets_at_start, tracker, bot>>

\* _update_activity_duration: the read of the row
ClientGetRowValues(p) ==
    LET c == clients[p] IN
    /\ c.pc = "get_row_values"
    /\ clients' = [clients EXCEPT ![p] =
           [c EXCEPT !.pc = "get_activity_columns",
                !.current_values = get_row_values(sheets[c.sheet_name], c.date_row_index)]]
    /\ UNCHANGED <<grid, last, prev, steps, probe, sheets, sheets_at_start, tracker, bot>>

\* _update_activity_duration: the read of the header, then the padding and
\* the sum in the client's copy of the row
ClientGetActivityColumns(p) ==
    LET c == clients[p] IN
    /\ c.pc = "get_activity_columns"
    /\ LET activities == get_activity_columns(sheets[c.sheet_name])
       IN  clients' = [clients EXCEPT ![p] =
               IF c.activity \notin Range(activities) THEN Done(c, "value_error")
               ELSE LET activity_index == IndexOf(activities, c.activity) + 1
                        padded == _ensure_row_length(c.current_values, activity_index)
                        cell == padded[activity_index + 1]
                    IN  IF cell # "" /\ ~IsNumText(cell) THEN Done(c, "value_error")
                        ELSE [c EXCEPT !.pc = "update_row",
                                  !.activities = activities,
                                  !.current_duration = FloatOrZero(cell),
                                  !.current_values =
                                      [padded EXCEPT ![activity_index + 1] =
                                          NumText(FloatOrZero(cell) + c.duration)]]]
    /\ UNCHANGED <<grid, last, prev, steps, probe, sheets, sheets_at_start, tracker, bot>>

\* mutant: the row is written to the first sheet whatever sheet_name says
ClientUpdateRow_first_sheet(p) ==
    LET c == clients[p] IN
    /\ c.pc = "update_row"
    /\ LET w == update_row(sheets["Alice"], c.date_row_index, c.current_values)
       IN  /\ sheets' = [sheets EXCEPT !["Alice"] = w.grid]
           /\ clients' = [clients EXCEPT ![p] =
                  Done(c, IF w.ok THEN "ok" ELSE "sheet_error")]
    /\ UNCHANGED <<grid, last, prev, steps, probe, sheets_at_start, tracker, bot>>

\* _update_activity_duration: the write of the whole row
ClientUpdateRow(p) ==
    LET c == clients[p] IN
    /\ c.pc = "update_row"
    /\ LET w == update_row(sheets[c.sheet_name], c.date_row_index, c.current_values)
       IN  /\ sheets' = [sheets EXCEPT ![c.sheet_name] = w.grid]
           /\ clients' = [clients EXCEPT ![p] =
                  Done(c, IF w.ok THEN "ok" ELSE "sheet_error")]
    /\ UNCHANGED <<grid, last, prev, steps, probe, sheets_at_start, tracker, bot>>

NextClients ==
    \E p \in Clients :
        \/ ClientUpdateActivitiesHeader(p)
        \/ ClientUpdateHeaderRow(p)
        \/ ClientGetDateRowIndex(p)
        \/ ClientGetRowValues(p)
        \/ ClientGetActivityColumns(p)
        \/ ClientUpdateRow(p)

SpecClients == InitClients /\ [][NextClients]_vars

----------------------------------------------------------------------------
(* One gateway method call: the method body inside @retry.Retry().  The    *)
(* body catches every exception of execute() and raises SheetError; Retry  *)
(* calls the body again only when its predicate, if_transient_error,       *)
(* accepts the exception the body raised.                                  *)

GatewayOps ==
    {"get_current_dates", "clear_sheet", "append_to_sheet_formatted",
     "get_date_row_index", "get_row_values", "update_row",
     "update_header_row", "get_activity_columns"}

\* what execute() does on one attempt: it returns, or raises HttpError with
\* the status of the response
Responses == {"ok", "HttpError 429", "HttpError 503", "HttpError 400", "HttpError 403"}

\* too many requests and service unavailable pass; a malformed range and a
\* refused authorization do not
TransientResponse(response) == response \in {"HttpError 429", "HttpError 503"}

\* attempts that fit into the deadline of Retry()
MaxAttempts == 3

\* try: ... .execute() / except Exception as e: raise SheetError(...)
RaisedByBody(response) == IF response = "ok" THEN "none" ELSE "SheetError"

\* the predicate of Retry(): the exception is one of the transient API errors
if_transient_error(exception) ==
    exception \in {"InternalServerError", "TooManyRequests", "ServiceUnavailable"}

InitGateway ==
    /\ grid = <<>>
    /\ last = NoCall
    /\ prev = NoCall
    /\ steps = 0
    /\ Idle
    /\ tracker = NoTracker
    /\ bot = NoBot
    /\ probe \in {[fn |-> "gateway", op |-> op, responses |-> responses,
                   attempts |-> 0, status |-> "calling", error |-> "none"] :
                     op \in GatewayOps, responses \in [1..MaxAttempts -> Responses]}

\* one attempt of the retry loop: the body runs; its exception is raised to
\* the caller unless the predicate accepts it and the deadline allows
\* another attempt
GatewayAttempt ==
    /\ probe.fn = "gateway" /\ probe.status = "calling"
    /\ LET attempt == probe.attempts + 1
           exception == RaisedByBody(probe.responses[attempt])
       IN  probe' =
               IF exception = "none"
               THEN [probe EXCEPT !.attempts = attempt, !.status = "returned"]
               ELSE IF ~if_transient_error(exception)
               THEN [probe EXCEPT !.attempts = attempt, !.status = "raised",
                         !.error = exception]
               ELSE IF attempt < MaxAttempts
               THEN [probe EXCEPT !.attempts = attempt]
               ELSE [probe EXCEPT !.attempts = attempt, !.status = "raised",
                         !.error = "RetryError"]
    /\ UNCHANGED <<grid, last, prev, steps, concurrent, tracker, bot>>

NextGateway == GatewayAttempt

SpecGateway == InitGateway /\ [][NextGateway]_vars

----------------------------------------------------------------------------
(* An upsert during which one gateway call fails: the k-th call the upsert *)
(* makes (k = 0: none).  The methods of GoogleSheetsClient raise           *)
(* SheetError, which process_new_entry_sheets does not catch.  In          *)
(* higher_pleasures.py get_activity_columns and get_date_row_index catch   *)
(* the exception and return [] and None; the other calls raise.            *)

\* gateway calls of one upsert, at most
MaxCalls == 6

\* process_new_entry_sheets when its k-th gateway call raises SheetError: the
\* calls before it have had their effect
process_new_entry_sheets_failing(g, date, activity, duration, k) ==
    \* (the one-element set keeps the upsert computed once)
    LET outcome ==
          { IF k = 0 \/ k > Len(r.calls)
            THEN [grid |-> r.grid, result |-> r.result, calls |-> r.calls,
                  failed |-> FALSE]
            ELSE [grid |-> IF \E j \in 1..(k - 1) : r.calls[j] = "update_header_row"
                           THEN update_activities_header(g, activity).grid
                           ELSE g,
                  result |-> "sheet_error",
                  calls |-> SubSeq(r.calls, 1, k),
                  failed |-> TRUE] :
              r \in {process_new_entry_sheets(g, date, activity, duration)} }
    IN  CHOOSE x \in outcome : TRUE

\* process_new_entry of higher_pleasures.py when its k-th gateway call fails
legacy_process_new_entry_failing(g, date, activity, duration, k) ==
    LET existing_activities == IF k = 1 THEN <<>> ELSE get_activity_columns(g)
        writes == activity \notin Range(existing_activities)
        shift == IF writes THEN 1 ELSE 0
        c1 == <<"get_activity_columns">>
                 \o (IF writes THEN <<"update_header_row">> ELSE <<>>)
    IN  IF writes /\ k = 2
        THEN [grid |-> g, result |-> "http_error", calls |-> c1, failed |-> TRUE]
        ELSE
        LET h == IF writes
                 THEN update_header_row(g, existing_activities \o <<activity>>)
                 ELSE [grid |-> g, ok |-> TRUE]
            date_row_index == IF k = 2 + shift THEN 0
                              ELSE get_date_row_index(h.grid, date)
            c2 == c1 \o <<"get_date_row_index", "get_row_values">>
        IN  IF ~h.ok
            THEN [grid |-> h.grid, result |-> "http_error", calls |-> c1,
                  failed |-> k = 1]
            ELSE IF date_row_index = 0 \/ k = 3 + shift
            THEN [grid |-> h.grid, result |-> "http_error", calls |-> c2,
                  failed |-> k \in 1..(3 + shift)]
            ELSE
            LET current_values == get_row_values(h.grid, date_row_index)
                activities == IF k = 4 + shift THEN <<>>
                              ELSE get_activity_columns(h.grid)
                c3 == c2 \o <<"get_activity_columns">>
            IN  IF activity \notin Range(activities)
                THEN [grid |-> h.grid, result |-> "value_error", calls |-> c3,
                      failed |-> k \in 1..(4 + shift)]
                ELSE
                LET activity_index == IndexOf(activities, activity) + 1
                    present == Len(current_values) > activity_index
                IN  IF present /\ current_values[activity_index + 1] # ""
                       /\ ~IsNumText(current_values[activity_index + 1])
                    THEN [grid |-> h.grid, result |-> "value_error", calls |-> c3,
                          failed |-> k \in 1..(4 + shift)]
                    ELSE IF k = 5 + shift
                    THEN [grid |-> h.grid, result |-> "http_error",
                          calls |-> c3 \o <<"update_row">>, failed |-> TRUE]
                    ELSE
                    LET new_values ==
                            IF present
                            THEN [current_values EXCEPT ![activity_index + 1] =
                                     NumText(FloatOrZero(@) + duration)]
                            ELSE [legacy_pad_row(current_values, activity_index)
                                     EXCEPT ![activity_index + 1] = NumText(duration)]
                        w == update_row(h.grid, date_row_index, new_values)
                    IN  [grid |-> w.grid,
                         result |-> IF w.ok THEN "ok" ELSE "http_error",
                         calls |-> c3 \o <<"update_row">>,
                         failed |-> k \in 1..(4 + shift)]

InitFaults ==
    /\ grid \in {Skeleton2024, EnteredSheet}
    /\ last = NoCall
    /\ prev = NoCall
    /\ steps = 0
    /\ Idle
    /\ tracker = NoTracker
    /\ bot = NoBot
    /\ probe = NoProbe

ProcessNewEntrySheetsFailing ==
    /\ steps = 0
    /\ \E date \in Dates, activity \in Activities, duration \in Durations,
          k \in 0..MaxCalls :
        \E r \in {process_new_entry_sheets_failing(grid, date, activity, duration, k)} :
            /\ InBounds(r.grid, date)
            /\ grid' = r.grid
            /\ last' = [NoCall EXCEPT !.op = "process_new_entry_sheets",
                            !.date = date, !.activity = activity,
                            !.duration = duration, !.result = r.result,
                            !.calls = r.calls]
            /\ probe' = [fn |-> "fault", failing |-> k, failed |-> r.failed]
    /\ prev' = last
    /\ steps' = steps + 1
    /\ UNCHANGED <<concurrent, tracker, bot>>

LegacyProcessNewEntryFailing ==
    /\ steps = 0
    /\ \E date \in Dates, activity \in Activities, duration \in Durations,
          k \in 0..MaxCalls :
        \E r \in {legacy_process_new_entry_failing(grid, date, activity, duration, k)} :
            /\ InBounds(r.grid, date)
            /\ grid' = r.grid
            /\ last' = [NoCall EXCEPT !.op = "process_new_entry",
                            !.date = date, !.activity = activity,
                            !.duration = duration, !.result = r.result,
                            !.calls = r.calls]
            /\ probe' = [fn |-> "fault", failing |-> k, failed |-> r.failed]
    /\ prev' = last
    /\ steps' = steps + 1
    /\ UNCHANGED <<concurrent, tracker, bot>>

NextFaults ==
    \/ ProcessNewEntrySheetsFailing
    \/ LegacyProcessNewEntryFailing

SpecFaults == InitFaults /\ [][NextFaults]_vars

-----------------------------------------------------------------------------
(* The ActivityTracker object: its constructor and track_activity, over    *)
(* the sheets of a user-to-sheet mapping and the ledger (the SQLite        *)
(* client) when one is given.                                              *)

Users == {1, 2, 3}

\* what user_sheet_mapping.get returns for a user that is not a key (None)
NoSheet == ""

\* the mappings a tracker is constructed with; user 3 is never a key
UserSheetMappings ==
    { [u \in Users |-> IF u = 1 THEN "Alice" ELSE IF u = 2 THEN b ELSE NoSheet] :
        b \in {"Alice", "Bob"} }

TrackerYears == {2024}

\* what the parser makes of a message: one activity with its date and hours
ParsedActivities ==
    { [date |-> <<2024, 1, 15>>, activity |-> "Running", duration |-> 1],
      [date |-> <<2024, 1, 15>>, activity |-> "Reading", duration |-> 2],
      [date |-> <<2025, 1, 15>>, activity |-> "Running", duration |-> 1] }

\* the activities table of the ledger before the tracker starts: user 1 has
\* tracked Running before
LedgerActivities == {<<1, "Running">>}

\* mutant: the constructor walks the keys of the mapping, not its values
sheets_to_initialize_keys(user_sheet_mapping) ==
    {ToString(u) : u \in {v \in DOMAIN user_sheet_mapping : user_sheet_mapping[v] # NoSheet}}

\* set(user_sheet_mapping.values())
sheets_to_initialize(user_sheet_mapping) ==
    {user_sheet_mapping[u] : u \in {v \in DOMAIN user_sheet_mapping : user_sheet_mapping[v] # NoSheet}}

\* SQLiteClient.get_user_activity_id_from_activity of src/db/client.py:
\* result[0][0], an IndexError when the user has no such activity
get_user_activity_id_from_activity(activities, user_id, activity) ==
    IF <<user_id, activity>> \in activities THEN "found" ELSE "index_error"

\* mutant: insert_entry replaces the entry of the same user, activity and
\* date (INSERT OR REPLACE) where the code inserts a new row
process_new_entry_replaces(t, db_user_id, activity, date, duration_minutes) ==
    IF ~t.db THEN [tracker |-> t, result |-> "ok", ledger_calls |-> <<>>]
    ELSE IF get_user_activity_id_from_activity(t.activities, db_user_id, activity) = "index_error"
         THEN [tracker |-> t, result |-> "index_error",
               ledger_calls |-> <<"get_user_activity_id_from_activity">>]
         ELSE LET new == [user_id |-> db_user_id, activity |-> activity,
                          date |-> date, duration_minutes |-> duration_minutes]
                  same(e) == e.user_id = db_user_id /\ e.activity = activity
                             /\ e.date = date
              IN  [tracker |-> [t EXCEPT !.entries =
                       IF \E i \in 1..Len(@) : same(@[i])
                       THEN [i \in 1..Len(@) |-> IF same(@[i]) THEN new ELSE @[i]]
                       ELSE Append(@, new)],
                   result |-> "ok",
                   ledger_calls |-> <<"get_user_activity_id_from_activity", "insert_entry">>]

\* ActivityTracker.process_new_entry(db_user_id, activity, date, minutes)
\* of the backend tracker, with its ledger calls
process_new_entry(t, db_user_id, activity, date, duration_minutes) ==
    IF ~t.db THEN [tracker |-> t, result |-> "ok", ledger_calls |-> <<>>]
    ELSE IF get_user_activity_id_from_activity(t.activities, db_user_id, activity) = "index_error"
         THEN [tracker |-> t, result |-> "index_error",
               ledger_calls |-> <<"get_user_activity_id_from_activity">>]
         ELSE [tracker |-> [t EXCEPT !.entries = Append(@,
                              [user_id |-> db_user_id, activity |-> activity,
                               date |-> date, duration_minutes |-> duration_minutes])],
               result |-> "ok",
               ledger_calls |-> <<"get_user_activity_id_from_activity", "insert_entry">>]

InitTracker ==
    /\ grid = <<>>
    /\ last = NoCall
    /\ prev = NoCall
    /\ steps = 0
    /\ probe = NoProbe
    /\ clients = <<>>
    /\ sheets \in {[n \in SheetNames |-> IF n = "Alice" THEN a ELSE b] :
                      a \in {<<>>, EnteredSheet}, b \in {<<>>, Skeleton(2025)}}
    /\ sheets_at_start = sheets
    /\ tracker = NoTracker
    /\ bot = NoBot

\* ActivityTracker(sheets_client, activity_parser, user_sheet_mapping, year, db_client)
Construct ==
    /\ ~tracker.constructed
    /\ \E user_sheet_mapping \in UserSheetMappings, year \in TrackerYears,
          db \in BOOLEAN, backend \in BOOLEAN :
        LET names == sheets_to_initialize(user_sheet_mapping) \cap SheetNames
            r == [n \in SheetNames |-> initialize_year_structure(sheets[n], year, FALSE)]
        IN  /\ \A n \in names : r[n].result = "ok"
            /\ sheets' = [n \in SheetNames |-> IF n \in names THEN r[n].grid ELSE sheets[n]]
            /\ tracker' = [constructed |-> TRUE, backend |-> backend,
                           user_sheet_mapping |-> user_sheet_mapping,
                           year |-> year, db |-> db, initialized |-> names,
                           activities |-> LedgerActivities, entries |-> <<>>]
            /\ prev' = last
            /\ last' = [NoCall EXCEPT !.op = "ActivityTracker", !.year = year,
                                      !.result = "ok"]
    /\ probe' = [fn |-> "ActivityTracker"]
    /\ UNCHANGED <<grid, steps, clients, sheets_at_start, bot>>

\* the outcome of a track_activity call: what it leaves in the sheets and the
\* ledger, how it ends, and the gateway and ledger calls it made
Tracked(user, sheet_name, a, new_sheets, new_tracker, result, calls, ledger_calls) ==
    /\ sheets' = new_sheets
    /\ tracker' = new_tracker
    /\ prev' = last
    /\ last' = [NoCall EXCEPT !.op = "track_activity", !.date = a.date,
                              !.activity = a.activity, !.duration = a.duration,
                              !.year = tracker.year, !.result = result,
                              !.calls = calls]
    /\ probe' = [fn |-> "track_activity", user |-> user, sheet_name |-> sheet_name,
                 ledger_calls |-> ledger_calls]
    /\ steps' = steps + 1
    /\ UNCHANGED <<grid, clients, sheets_at_start, bot>>

\* ActivityTracker.track_activity(telegram_user_id, message) of
\* src/activities/tracker.py
TrackActivity ==
    /\ tracker.constructed
    /\ ~tracker.backend
    /\ steps < MaxSteps
    /\ \E telegram_user_id \in Users, a \in ParsedActivities :
        LET sheet_name == tracker.user_sheet_mapping[telegram_user_id]
        IN  IF sheet_name = NoSheet
            THEN Tracked(telegram_user_id, sheet_name, a, sheets, tracker,
                         "no_sheet_mapping", <<>>, <<>>)
            ELSE IF tracker.db
            THEN \* db_client.get_user_activities() lacks its user_id: TypeError
                 Tracked(telegram_user_id, sheet_name, a, sheets, tracker,
                         "type_error", <<"get_activity_columns">>,
                         <<"get_user_activities">>)
            ELSE
            LET r == process_new_entry_sheets(sheets[sheet_name], a.date,
                                              a.activity, a.duration)
            IN  Tracked(telegram_user_id, sheet_name, a,
                        [sheets EXCEPT ![sheet_name] = r.grid], tracker, r.result,
                        <<"get_activity_columns">> \o r.calls, <<>>)

\* ActivityTracker.track_activity(telegram_user_id, message) of the backend
\* tracker
TrackActivityBackend ==
    /\ tracker.constructed
    /\ tracker.backend
    /\ steps < MaxSteps
    /\ \E telegram_user_id \in Users, a \in ParsedActivities :
        LET sheet_name == tracker.user_sheet_mapping[telegram_user_id]
        IN  IF sheet_name = NoSheet
            THEN Tracked(telegram_user_id, sheet_name, a, sheets, tracker,
                         "no_sheet_mapping", <<>>, <<>>)
            ELSE
            LET r == process_new_entry_sheets(sheets[sheet_name], a.date,
                                              a.activity, a.duration)
                before == IF tracker.db
                          THEN <<"get_user_id_from_telegram", "get_user_activities">>
                          ELSE <<>>
                e == process_new_entry(tracker, telegram_user_id, a.activity,
                                       a.date, a.duration * 60)
            IN  IF r.result # "ok"
                THEN Tracked(telegram_user_id, sheet_name, a,
                             [sheets EXCEPT ![sheet_name] = r.grid], tracker,
                             r.result, <<"get_activity_columns">> \o r.calls, before)
                ELSE Tracked(telegram_user_id, sheet_name, a,
                             [sheets EXCEPT ![sheet_name] = r.grid], e.tracker,
                             e.result, <<"get_activity_columns">> \o r.calls,
                             before \o e.ledger_calls)

NextTracker ==
    \/ Construct
    \/ TrackActivity
    \/ TrackActivityBackend

SpecTracker == InitTracker /\ [][NextTracker]_vars

-----------------------------------------------------------------------------
(* The rebuild on its own: the append calls it makes for the labels of a   *)
(* year and the sheet it leaves.                                           *)

InitBatches ==
    /\ grid \in {<<>>, EnteredSheet}
    /\ last = NoCall
    /\ prev = NoCall
    /\ steps = 0
    /\ Idle
    /\ tracker = NoTracker
    /\ bot = NoBot
    /\ probe \in {[fn |-> "none", year |-> year, out |-> <<>>, sizes |-> <<>>,
                   calls |-> <<>>] : year \in FirstYear..LastYear}

PerformInitialization ==
    /\ probe.fn = "none"
    /\ \E expected \in {_generate_dates(probe.year)} :
       \E r \in {_perform_initialization(grid, expected)} :
        /\ grid' = r.grid
        /\ probe' = [probe EXCEPT !.fn = "_perform_initialization",
                         !.out = expected, !.sizes = r.sizes, !.calls = r.calls]
    /\ UNCHANGED <<last, prev, steps, concurrent, tracker, bot>>

LegacyPerformInitialization ==
    /\ probe.fn = "none"
    /\ \E e \in {get_expected_dates(probe.year)} :
       \E r \in {legacy_perform_initialization(grid, e.rows_batch)} :
        /\ grid' = r.grid
        /\ probe' = [probe EXCEPT !.fn = "legacy_perform_initialization",
                         !.out = e.expected, !.sizes = r.sizes, !.calls = r.calls]
    /\ UNCHANGED <<last, prev, steps, concurrent, tracker, bot>>

NextBatches ==
    \/ PerformInitialization
    \/ LegacyPerformInitialization

SpecBatches == InitBatches /\ [][NextBatches]_vars

-----------------------------------------------------------------------------
(* update_activities_header on its own, called again and again for         *)
(* categories that differ in spelling or only in case.                     *)

HeaderActivities == {"Running", "running", "Reading"}

MaxHeaderCalls == 3

UpdateActivitiesHeader ==
    /\ steps < MaxHeaderCalls
    /\ \E activity \in HeaderActivities :
       \E r \in {update_activities_header(grid, activity)} :
        /\ grid' = r.grid
        /\ last' = [NoCall EXCEPT !.op = "update_activities_header",
                        !.activity = activity,
                        !.result = IF r.ok THEN "ok" ELSE "sheet_error",
                        !.calls = r.calls]
    /\ prev' = last
    /\ steps' = steps + 1
    /\ UNCHANGED <<probe, concurrent, tracker, bot>>

NextHeader == UpdateActivitiesHeader

SpecHeader == Init /\ [][NextHeader]_vars

-----------------------------------------------------------------------------
(* One tracker on a spreadsheet that another writer (a person in the       *)
(* Sheets user interface, another process) edits between its calls.        *)

WriterDates == {<<2024, 1, 15>>}

WriterDurations == {-1, 1}

\* the category of the column the other writer inserts
InsertedActivity == "Yoga"

MaxWriterSteps == 3

\* "insert 1 column left" of column B, with a header: every cell from column
\* B on moves one column to the right
InsertColumnB(g, header) ==
    [i \in 1..Len(g) |->
        IF i = 1
        THEN <<g[1][1], header>> \o SubSeq(g[1], 2, Len(g[1]))
        ELSE IF Len(g[i]) <= 1 THEN g[i]
             ELSE <<g[i][1], "">> \o SubSeq(g[i], 2, Len(g[i]))]

InitWriters ==
    /\ grid \in {Skeleton2024, EnteredSheet}
    /\ last = NoCall
    /\ prev = NoCall
    /\ steps = 0
    /\ Idle
    /\ tracker = NoTracker
    /\ bot = NoBot
    /\ probe = NoProbe

\* mutant: the tracker keeps the header it saw in its first call and places
\* the later durations by it, without reading row 1 again
ProcessNewEntrySheetsShared_cached ==
    /\ steps < MaxWriterSteps
    /\ \E date \in WriterDates, activity \in Activities, duration \in WriterDurations :
       \E r \in {IF probe.fn = "cache" /\ activity \in Range(probe.activities)
                    /\ Len(grid) >= 1
                 THEN LET seen == [grid EXCEPT ![1] = <<"Date">> \o probe.activities]
                          c == process_new_entry_sheets(seen, date, activity, duration)
                      IN  [grid |-> IF Len(c.grid) >= 1
                                    THEN [c.grid EXCEPT ![1] = grid[1]] ELSE c.grid,
                           result |-> c.result,
                           calls |-> SelectSeq(c.calls,
                                        LAMBDA n : n # "get_activity_columns")]
                 ELSE process_new_entry_sheets(grid, date, activity, duration)} :
        /\ grid' = r.grid
        /\ last' = [NoCall EXCEPT !.op = "process_new_entry_sheets",
                        !.date = date, !.activity = activity,
                        !.duration = duration, !.result = r.result,
                        !.calls = r.calls]
        /\ probe' = IF probe.fn = "cache" THEN probe
                    ELSE [fn |-> "cache", activities |-> get_activity_columns(r.grid)]
    /\ prev' = last
    /\ steps' = steps + 1
    /\ UNCHANGED <<concurrent, tracker, bot>>

\* process_new_entry_sheets(date, activity, duration) on the shared sheet
ProcessNewEntrySheetsShared ==
    /\ steps < MaxWriterSteps
    /\ \E date \in WriterDates, activity \in Activities, duration \in WriterDurations :
       \E r \in {process_new_entry_sheets(grid, date, activity, duration)} :
        /\ grid' = r.grid
        /\ last' = [NoCall EXCEPT !.op = "process_new_entry_sheets",
                        !.date = date, !.activity = activity,
                        !.duration = duration, !.result = r.result,
                        !.calls = r.calls]
    /\ prev' = last
    /\ steps' = steps + 1
    /\ UNCHANGED <<probe, concurrent, tracker, bot>>

\* the other writer inserts a column with its header before the categories
OtherWriterInsertsColumn ==
    /\ steps < MaxWriterSteps
    /\ Len(grid) >= 1
    /\ InsertedActivity \notin Range(get_activity_columns(grid))
    /\ grid' = InsertColumnB(grid, InsertedActivity)
    /\ last' = [NoCall EXCEPT !.op = "other_writer", !.activity = InsertedActivity]
    /\ prev' = last
    /\ steps' = steps + 1
    /\ UNCHANGED <<probe, concurrent, tracker, bot>>

NextWriters ==
    \/ ProcessNewEntrySheetsShared
    \/ OtherWriterInsertsColumn

SpecWriters == InitWriters /\ [][NextWriters]_vars

-----------------------------------------------------------------------------
(* One track_activity call, step by step: the activities of its message,   *)
(* each first to the sheet and then to the ledger.                         *)

MaxMessage == 2

\* what parse_message returns: a list of activities
Messages ==
    UNION {[1..n -> ParsedActivities] : n \in 1..MaxMessage}

\* the activities table of the ledger: user 1 has tracked Running before,
\* or Running and Reading
LedgerTables == {LedgerActivities, LedgerActivities \cup {<<1, "Reading">>}}

InitMessage ==
    /\ grid = <<>>
    /\ last = NoCall
    /\ prev = NoCall
    /\ steps = 0
    /\ clients = <<>>
    /\ sheets \in {[n \in SheetNames |-> IF n = "Alice" THEN a ELSE Skeleton2024] :
                      a \in {Skeleton2024, EnteredSheet}}
    /\ sheets_at_start = sheets
    /\ tracker \in {[constructed |-> TRUE, backend |-> backend,
                     user_sheet_mapping |->
                         [u \in Users |-> IF u = 1 THEN "Alice" ELSE NoSheet],
                     year |-> 2024, db |-> db, initialized |-> {"Alice"},
                     activities |-> activities, entries |-> <<>>] :
                       backend \in BOOLEAN, db \in BOOLEAN,
                       activities \in LedgerTables}
    /\ bot = NoBot
    /\ probe \in {[fn |-> "track_activity", pc |-> "start", user |-> 1,
                   sheet_name |-> NoSheet, message |-> message, i |-> 1,
                   result |-> ""] : message \in Messages}

\* track_activity up to its loop: the mapping, the header read, and with a
\* ledger its reads (get_user_activities() of src/activities/tracker.py
\* lacks its user_id: TypeError)
TrackStart ==
    /\ probe.fn = "track_activity" /\ probe.pc = "start"
    /\ \E sheet_name \in {tracker.user_sheet_mapping[probe.user]} :
        probe' = IF sheet_name = NoSheet
                 THEN [probe EXCEPT !.pc = "failed", !.result = "no_sheet_mapping"]
                 ELSE IF tracker.db /\ ~tracker.backend
                 THEN [probe EXCEPT !.pc = "failed", !.result = "type_error",
                                    !.sheet_name = sheet_name]
                 ELSE [probe EXCEPT !.pc = "process_new_entry_sheets",
                                    !.sheet_name = sheet_name]
    /\ UNCHANGED <<grid, last, prev, steps, concurrent, tracker, bot>>

\* mutant: a failed upsert is skipped and the loop goes on with the next
\* activity
TrackSheets_goes_on ==
    /\ probe.fn = "track_activity" /\ probe.pc = "process_new_entry_sheets"
    /\ \E a \in {probe.message[probe.i]} :
       \E r \in {process_new_entry_sheets(sheets[probe.sheet_name], a.date,
                                          a.activity, a.duration)} :
        /\ sheets' = [sheets EXCEPT ![probe.sheet_name] = r.grid]
        /\ prev' = last
        /\ last' = [NoCall EXCEPT !.op = "process_new_entry_sheets",
                        !.date = a.date, !.activity = a.activity,
                        !.duration = a.duration, !.result = r.result,
                        !.calls = r.calls]
        /\ probe' = IF r.result = "ok"
                    THEN [probe EXCEPT !.pc = "process_new_entry"]
                    ELSE IF probe.i = Len(probe.message)
                    THEN [probe EXCEPT !.pc = "done", !.result = "ok"]
                    ELSE [probe EXCEPT !.i = probe.i + 1]
    /\ UNCHANGED <<grid, steps, clients, sheets_at_start, tracker, bot>>

\* the loop of track_activity: process_new_entry_sheets for activity i
TrackSheets ==
    /\ probe.fn = "track_activity" /\ probe.pc = "process_new_entry_sheets"
    /\ \E a \in {probe.message[probe.i]} :
       \E r \in {process_new_entry_sheets(sheets[probe.sheet_name], a.date,
                                          a.activity, a.duration)} :
        /\ sheets' = [sheets EXCEPT ![probe.sheet_name] = r.grid]
        /\ prev' = last
        /\ last' = [NoCall EXCEPT !.op = "process_new_entry_sheets",
                        !.date = a.date, !.activity = a.activity,
                        !.duration = a.duration, !.result = r.result,
                        !.calls = r.calls]
        /\ probe' = IF r.result = "ok"
                    THEN [probe EXCEPT !.pc = "process_new_entry"]
                    ELSE [probe EXCEPT !.pc = "failed", !.result = r.result]
    /\ UNCHANGED <<grid, steps, clients, sheets_at_start, tracker, bot>>

\* the loop of track_activity: process_new_entry for activity i (with no
\* ledger it returns at once), then on to activity i + 1
TrackLedger ==
    /\ probe.fn = "track_activity" /\ probe.pc = "process_new_entry"
    /\ \E a \in {probe.message[probe.i]} :
       \E e \in {process_new_entry(tracker, probe.user, a.activity, a.date,
                                   a.duration * 60)} :
        /\ tracker' = e.tracker
        /\ probe' = IF e.result # "ok"
                    THEN [probe EXCEPT !.pc = "failed", !.result = e.result]
                    ELSE IF probe.i = Len(probe.message)
                    THEN [probe EXCEPT !.pc = "done", !.result = "ok"]
                    ELSE [probe EXCEPT !.pc = "process_new_entry_sheets",
                                       !.i = probe.i + 1]
    /\ UNCHANGED <<grid, last, prev, steps, concurrent, bot>>

NextMessage ==
    \/ TrackStart
    \/ TrackSheets
    \/ TrackLedger

SpecMessage == InitMessage /\ [][NextMessage]_vars

-----------------------------------------------------------------------------
(* An initialization cut short by a gateway failure, then initializations  *)
(* that meet none.                                                         *)

\* gateway calls of one initialization, at most: the read, the clear, the
\* header and the appends
MaxInitCalls == 12

MaxRecoverySteps == 2

\* initialize_year_structure when its k-th gateway call raises SheetError:
\* the calls before it have had their effect (k = 0: no call fails)
initialize_year_structure_failing(g, year, force, k) ==
    LET outcome ==
          { IF k = 0 \/ k > Len(r.calls)
            THEN [grid |-> r.grid, result |-> r.result, calls |-> r.calls]
            ELSE LET before == SubSeq(r.calls, 1, k - 1)
                     appended == Len(SelectSeq(before,
                                     LAMBDA c : c = "append_to_sheet_formatted"))
                     rows == Min(appended * BATCH_SIZE, Len(expected))
                 IN  [grid |->
                        IF "clear_sheet" \notin Range(before) THEN g
                        ELSE IF "update_header_row" \notin Range(before)
                             THEN clear_sheet(g)
                             ELSE update_header_row(clear_sheet(g), <<>>).grid
                                  \o [i \in 1..rows |-> <<expected[i]>>],
                      result |-> "sheet_error",
                      calls |-> SubSeq(r.calls, 1, k)] :
              r \in {initialize_year_structure(g, year, force)},
              expected \in {GeneratedDates[year]} }
    IN  CHOOSE x \in outcome : TRUE

\* an initialization in which a gateway call fails
InitializeYearStructureFailing ==
    /\ steps = 0
    /\ \E year \in Years, force \in BOOLEAN, k \in 1..MaxInitCalls :
       \E r \in {initialize_year_structure_failing(grid, year, force, k)} :
        /\ r.result = "sheet_error"
        /\ grid' = r.grid
        /\ last' = [NoCall EXCEPT !.op = "initialize_year_structure",
                        !.year = year, !.force = force,
                        !.result = r.result, !.calls = r.calls]
    /\ prev' = last
    /\ steps' = steps + 1
    /\ UNCHANGED <<probe, concurrent, tracker, bot>>

\* a non-forced initialization in which no gateway call fails
InitializeYearStructureRecovering ==
    /\ steps >= 1 /\ steps < MaxRecoverySteps
    /\ \E year \in Years :
       \E r \in {initialize_year_structure_failing(grid, year, FALSE, 0)} :
        /\ grid' = r.grid
        /\ last' = [NoCall EXCEPT !.op = "initialize_year_structure",
                        !.year = year, !.force = FALSE,
                        !.result = r.result, !.calls = r.calls]
    /\ prev' = last
    /\ steps' = steps + 1
    /\ UNCHANGED <<probe, concurrent, tracker, bot>>

NextRecovery ==
    \/ InitializeYearStructureFailing
    \/ InitializeYearStructureRecovering

SpecRecovery == Init /\ [][NextRecovery]_vars

----------------------------------------------------------------------------
(* Upserts, and nothing else, on a sheet that initialization has laid out. *)

InitUpserts ==
    /\ grid \in {Skeleton2024, EnteredSheet}
    /\ last = NoCall
    /\ prev = NoCall
    /\ steps = 0
    /\ Idle
    /\ tracker = NoTracker
    /\ bot = NoBot
    /\ probe = NoProbe

NextUpserts == ProcessNewEntrySheets

SpecUpserts == InitUpserts /\ [][NextUpserts]_vars

----------------------------------------------------------------------------
(* Headers of every width, up to and past column Z.                        *)

\* most categories a header starts with; column Z is the 25th category
MaxWidth == 27

CategoryName(i) == "c" \o ToString(i)

\* the 2024 sheet with the first n categories in its header
WideSheet(n) ==
    [i \in 1..Len(Skeleton2024) |->
        IF i = 1 THEN <<"Date">> \o [k \in 1..n |-> CategoryName(k)]
        ELSE Skeleton2024[i]]

\* the category of column B, those about column Z, and one no header holds
WideCategories ==
    {CategoryName(1), CategoryName(24), CategoryName(25), CategoryName(MaxWidth + 1)}

MaxWideSteps == 2

InitWide ==
    /\ grid \in {WideSheet(n) : n \in 0..MaxWidth}
    /\ last = NoCall
    /\ prev = NoCall
    /\ steps = 0
    /\ Idle
    /\ tracker = NoTracker
    /\ bot = NoBot
    /\ probe = NoProbe

\* (a behaviour is some header calls and at most one upsert, which ends it)
UpdateActivitiesHeaderWide ==
    /\ steps < MaxWideSteps
    /\ last.op # "process_new_entry_sheets"
    /\ \E activity \in WideCategories :
       \E r \in {update_activities_header(grid, activity)} :
        /\ grid' = r.grid
        /\ last' = [NoCall EXCEPT !.op = "update_activities_header",
                        !.activity = activity,
                        !.result = IF r.ok THEN "ok" ELSE "sheet_error",
                        !.calls = r.calls]
    /\ prev' = last
    /\ steps' = steps + 1
    /\ UNCHANGED <<probe, concurrent, tracker, bot>>

ProcessNewEntrySheetsWide ==
    /\ steps < MaxWideSteps
    /\ last.op # "process_new_entry_sheets"
    /\ \E date \in WriterDates, activity \in WideCategories :
       \E r \in {process_new_entry_sheets(grid, date, activity, 1)} :
        /\ InBounds(r.grid, date)
        /\ grid' = r.grid
        /\ last' = [NoCall EXCEPT !.op = "process_new_entry_sheets",
                        !.date = date, !.activity = activity,
                        !.duration = 1, !.result = r.result,
                        !.calls = r.calls]
    /\ prev' = last
    /\ steps' = steps + 1
    /\ UNCHANGED <<probe, concurrent, tracker, bot>>

NextWide ==
    \/ UpdateActivitiesHeaderWide
    \/ ProcessNewEntrySheetsWide

SpecWide == InitWide /\ [][NextWide]_vars

----------------------------------------------------------------------------
(* The chat front end: the registration conversation of TelegramOnboarder  *)
(* and the message handler of TelegramHandler.  A text is the sequence of  *)
(* its characters.                                                         *)

DigitChars == {"0", "1", "2", "3", "4", "5", "6", "7", "8", "9"}

UpperCase == <<"A", "B", "I", "K", "P", "S">>
LowerCase == <<"a", "b", "i", "k", "p", "s">>

\* str.lower(), character by character
Lower(text) ==
    [i \in 1..Len(text) |->
        IF \E k \in 1..Len(UpperCase) : UpperCase[k] = text[i]
        THEN LowerCase[CHOOSE k \in 1..Len(UpperCase) : UpperCase[k] = text[i]]
        ELSE text[i]]

\* str.strip(): the blanks at both ends go
Strip(text) ==
    LET filled == {i \in 1..Len(text) : text[i] # " "}
    IN  IF filled = {} THEN <<>>
        ELSE SubSeq(text, CHOOSE i \in filled : \A j \in filled : i <= j,
                          CHOOSE i \in filled : \A j \in filled : j <= i)

\* str.split(): the runs of characters between blanks, in order
Split(text) ==
    LET starts == {i \in 1..Len(text) :
                      text[i] # " " /\ (i = 1 \/ text[i - 1] = " ")}
        start(k) == CHOOSE i \in starts : Cardinality({j \in starts : j < i}) = k - 1
        end(i) == CHOOSE j \in i..Len(text) :
                      /\ \A m \in i..j : text[m] # " "
                      /\ (j = Len(text) \/ text[j + 1] = " ")
    IN  [k \in 1..Cardinality(starts) |-> SubSeq(text, start(k), end(start(k)))]

\* " ".join(parts)
RECURSIVE JoinBlank(_)
JoinBlank(parts) ==
    IF parts = <<>> THEN <<>>
    ELSE IF Len(parts) = 1 THEN parts[1]
    ELSE parts[1] \o <<" ">> \o JoinBlank(Tail(parts))

\* most parts a name may have
MaxNameParts == 6

\* parse_full_name(full_name): (is_valid, (first_name, last_name))
parse_full_name(full_name) ==
    LET parts == Split(Strip(full_name))
    IN  IF Len(parts) < 2 \/ Len(parts) > MaxNameParts
        THEN [is_valid |-> FALSE, first_name |-> <<>>, last_name |-> <<>>]
        ELSE [is_valid |-> TRUE, first_name |-> parts[1],
              last_name |-> JoinBlank(Tail(parts))]

\* digits of a US number without its country code
PhoneDigits == 10

\* mutant: any number of digits passes, the area code alone is tested
validate_and_format_us_phone_any_length(phone) ==
    LET all == SelectSeq(phone, LAMBDA c : c \in DigitChars)
        digits == IF all # <<>> /\ all[1] = "1" THEN Tail(all) ELSE all
    IN  IF digits = <<>> \/ digits[1] \in {"0", "1"}
        THEN [is_valid |-> FALSE, formatted |-> <<>>]
        ELSE [is_valid |-> TRUE, formatted |-> <<"+", "1">> \o digits]

\* validate_and_format_us_phone(phone): (is_valid, formatted_number);
\* re.sub(r"\D", "", phone), removeprefix("1"), ten digits, area code
validate_and_format_us_phone(phone) ==
    LET all == SelectSeq(phone, LAMBDA c : c \in DigitChars)
        digits == IF all # <<>> /\ all[1] = "1" THEN Tail(all) ELSE all
    IN  IF Len(digits) # PhoneDigits
        THEN [is_valid |-> FALSE, formatted |-> <<>>]
        ELSE IF digits[1] \in {"0", "1"}
        THEN [is_valid |-> FALSE, formatted |-> <<>>]
        ELSE [is_valid |-> TRUE, formatted |-> <<"+", "1">> \o digits]

\* the chats the bot is in and the users who write to it
BotChats == {"private", "group"}
BotUsers == {1, 2}

\* a conversation of ConversationHandler is kept per chat and user
\* (per_chat and per_user are left at True)
ConversationKeys == BotChats \X BotUsers

\* ConversationHandler.END; a key without a conversation reads the same
END == "END"

\* a name; a name of one part; one of seven parts; skip; an address;
\* a number with punctuation; one with the country code; one whose area
\* code starts with 0; one that is too short
Texts ==
    { <<"A", "l", " ", "B", "o">>,
      <<"A", "l">>,
      <<"a", " ", "a", " ", "a", " ", "a", " ", "a", " ", "a", " ", "a">>,
      <<"S", "k", "i", "p">>,
      <<"a", "@", "b">>,
      <<"(", "2", "1", "2", ")", " ", "5", "5", "5", "-", "0", "1", "0", "0">>,
      <<"1", "2", "1", "2", "5", "5", "5", "0", "1", "0", "0">>,
      <<"0", "1", "2", "5", "5", "5", "0", "1", "0", "0">>,
      <<"5", "5", "5", "-", "0", "1", "0", "0">> }

\* callback data a button press may carry
CallbackData == {"confirm", "restart", "other"}

\* no entry of temp_user_data
NoRecord ==
    [present |-> FALSE, first_name |-> <<>>, last_name |-> <<>>,
     email |-> <<>>, cell |-> <<>>]

\* UserRegistrationData(telegram_user_id=user_id); email None is <<>>
UserRegistrationData ==
    [present |-> TRUE, first_name |-> <<>>, last_name |-> <<>>,
     email |-> <<>>, cell |-> <<>>]

\* what a handler leaves: temp_user_data, the users table, the state it
\* returns (the conversation keeps its state when the handler raises)
Outcome(temp_user_data, users, state, result) ==
    [temp_user_data |-> temp_user_data, users |-> users, state |-> state,
     result |-> result]

\* start_registration
start_registration(b, user_id) ==
    Outcome([b.temp_user_data EXCEPT ![user_id] = UserRegistrationData],
            b.users, "AWAITING_FULL_NAME", "ok")

\* mutant: the name goes into the record whatever parse_full_name says
handle_full_name_unchecked(b, user_id, state, text) ==
    LET p == parse_full_name(Strip(text))
    IN  IF ~b.temp_user_data[user_id].present
        THEN Outcome(b.temp_user_data, b.users, state, "key_error")
        ELSE Outcome([b.temp_user_data EXCEPT ![user_id].first_name = p.first_name,
                                             ![user_id].last_name = p.last_name],
                     b.users, "AWAITING_EMAIL", "ok")

\* handle_full_name; [state] is the state the conversation is in
handle_full_name(b, user_id, state, text) ==
    LET p == parse_full_name(Strip(text))
    IN  IF ~p.is_valid
        THEN Outcome(b.temp_user_data, b.users, "AWAITING_FULL_NAME", "invalid")
        ELSE IF ~b.temp_user_data[user_id].present
        THEN Outcome(b.temp_user_data, b.users, state, "key_error")
        ELSE Outcome([b.temp_user_data EXCEPT ![user_id].first_name = p.first_name,
                                             ![user_id].last_name = p.last_name],
                     b.users, "AWAITING_EMAIL", "ok")

\* handle_email
handle_email(b, user_id, state, text) ==
    LET email == Strip(text)
    IN  IF Lower(email) = <<"s", "k", "i", "p">>
        THEN Outcome(b.temp_user_data, b.users, "AWAITING_CELL", "ok")
        ELSE IF ~b.temp_user_data[user_id].present
        THEN Outcome(b.temp_user_data, b.users, state, "key_error")
        ELSE Outcome([b.temp_user_data EXCEPT ![user_id].email = email],
                     b.users, "AWAITING_CELL", "ok")

\* handle_cell: the text as typed is kept, not the formatted number
handle_cell(b, user_id, state, text) ==
    LET cell == Strip(text)
        v == validate_and_format_us_phone(cell)
    IN  IF ~v.is_valid
        THEN Outcome(b.temp_user_data, b.users, "AWAITING_CELL", "invalid")
        ELSE IF ~b.temp_user_data[user_id].present
        THEN Outcome(b.temp_user_data, b.users, state, "key_error")
        ELSE Outcome([b.temp_user_data EXCEPT ![user_id].cell = cell],
                     b.users, "AWAITING_CONFIRMATION", "ok")

\* SQLiteClient.insert_user: one more row of the users table
insert_user(users, telegram_id, user_data) ==
    Append(users, [telegram_id |-> telegram_id,
                   first_name |-> user_data.first_name,
                   last_name |-> user_data.last_name,
                   cell |-> user_data.cell, email |-> user_data.email])

\* handle_confirmation; [saved] is whether insert_user goes through.  With
\* no record the read of temp_user_data raises inside try, the except
\* clause raises on the unbound user_data, the del of finally raises
\* KeyError, and the handler ends in an exception.
handle_confirmation(b, user_id, state, data, saved) ==
    LET user_data == b.temp_user_data[user_id]
        removed == [b.temp_user_data EXCEPT ![user_id] = NoRecord]
    IN  IF ~user_data.present
        THEN Outcome(b.temp_user_data, b.users, state, "key_error")
        ELSE IF data = "confirm"
        THEN IF saved
             THEN Outcome(removed, insert_user(b.users, user_id, user_data), END, "ok")
             ELSE Outcome(removed, b.users, END, "save_failed")
        ELSE Outcome(removed, b.users, END, "restart")

\* cancel_registration
cancel_registration(b, user_id) ==
    Outcome([b.temp_user_data EXCEPT ![user_id] = NoRecord], b.users, END, "ok")

\* the bot after a handler of the conversation ran for the key
AfterHandler(b, key, out) ==
    [b EXCEPT !.temp_user_data = out.temp_user_data,
              !.users = out.users,
              !.conversations[key] = out.state]

\* updates handled in one behaviour
MaxUpdates == 5

InitOnboarding ==
    /\ grid = <<>>
    /\ last = NoCall
    /\ prev = NoCall
    /\ steps = 0
    /\ Idle
    /\ tracker = NoTracker
    /\ probe = NoProbe
    /\ bot = [started |-> TRUE,
              conversations |-> [key \in ConversationKeys |-> END],
              temp_user_data |-> [u \in BotUsers |-> NoRecord],
              users |-> <<>>]

\* an update went through the ConversationHandler: the handler that took
\* it, how it ended, and the update itself
Handled(key, handler, out, text, data) ==
    /\ bot' = AfterHandler(bot, key, out)
    /\ prev' = last
    /\ last' = [NoCall EXCEPT !.op = handler, !.result = out.result]
    /\ probe' = [fn |-> "ConversationHandler", key |-> key, text |-> text,
                 data |-> data, state |-> bot.conversations[key]]
    /\ steps' = steps + 1
    /\ UNCHANGED <<grid, concurrent, tracker>>

\* /register: an entry point, tried only for a key without a conversation
\* (allow_reentry is left at False)
RegisterCommand ==
    /\ bot.started /\ steps < MaxUpdates
    /\ \E key \in ConversationKeys :
        /\ bot.conversations[key] = END
        /\ Handled(key, "start_registration", start_registration(bot, key[2]),
                   <<>>, "")

\* /cancel: the fallback, tried for a key in a conversation when no handler
\* of its state takes the update (none of them takes a command)
CancelCommand ==
    /\ bot.started /\ steps < MaxUpdates
    /\ \E key \in ConversationKeys :
        /\ bot.conversations[key] # END
        /\ Handled(key, "cancel_registration", cancel_registration(bot, key[2]),
                   <<>>, "")

\* a text that is no command, in a state that has a MessageHandler
TextMessage ==
    /\ bot.started /\ steps < MaxUpdates
    /\ \E key \in ConversationKeys, text \in Texts :
       \E state \in {bot.conversations[key]} :
        \/ /\ state = "AWAITING_FULL_NAME"
           /\ Handled(key, "handle_full_name",
                      handle_full_name(bot, key[2], state, text), text, "")
        \/ /\ state = "AWAITING_EMAIL"
           /\ Handled(key, "handle_email",
                      handle_email(bot, key[2], state, text), text, "")
        \/ /\ state = "AWAITING_CELL"
           /\ Handled(key, "handle_cell",
                      handle_cell(bot, key[2], state, text), text, "")

\* a button press: CallbackQueryHandler(pattern="^(confirm|restart)$") of
\* the state AWAITING_CONFIRMATION
CallbackQuery ==
    /\ bot.started /\ steps < MaxUpdates
    /\ \E key \in ConversationKeys, data \in CallbackData, saved \in BOOLEAN :
       \E state \in {bot.conversations[key]} :
        /\ state = "AWAITING_CONFIRMATION"
        /\ data \in {"confirm", "restart"}
        /\ Handled(key, "handle_confirmation",
                   handle_confirmation(bot, key[2], state, data, saved), <<>>, data)

NextOnboarding ==
    \/ RegisterCommand
    \/ CancelCommand
    \/ TextMessage
    \/ CallbackQuery

SpecOnboarding == InitOnboarding /\ [][NextOnboarding]_vars

----------------------------------------------------------------------------
(* The message handler of TelegramHandler in front of the tracker.         *)

\* update.effective_chat.type of the chats the handler is registered for
\* (filters.ChatType.GROUPS | filters.ChatType.PRIVATE)
ChatTypes == {"private", "group", "supergroup"}

\* context.bot.username
BotUsername == <<"b", "o", "t">>

Entity(type, offset, length) == [type |-> type, offset |-> offset, length |-> length]

\* messages: plain; the bot mentioned; someone else mentioned; the bot's
\* name in another case; an entity that is no mention; the bot mentioned
\* after someone else; the bot's name under an entity of another type
ChatMessages ==
    { [text |-> <<"h", "i">>, entities |-> <<>>],
      [text |-> <<"@", "b", "o", "t", " ", "h", "i">>,
       entities |-> <<Entity("mention", 0, 4)>>],
      [text |-> <<"@", "b", "o", "b", " ", "h", "i">>,
       entities |-> <<Entity("mention", 0, 4)>>],
      [text |-> <<"@", "B", "o", "t", " ", "h", "i">>,
       entities |-> <<Entity("mention", 0, 4)>>],
      [text |-> <<"h", "i">>, entities |-> <<Entity("bold", 0, 2)>>],
      [text |-> <<"@", "b", "o", "b", " ", "@", "b", "o", "t", " ", "h", "i">>,
       entities |-> <<Entity("mention", 0, 4), Entity("mention", 5, 4)>>],
      [text |-> <<"@", "b", "o", "t", " ", "h", "i">>,
       entities |-> <<Entity("url", 0, 4)>>] }

\* message_text[offset : offset + length]
Slice(text, offset, length) ==
    SubSeq(text, Min(offset, Len(text)) + 1, Min(offset + length, Len(text)))

\* str.replace(old, ""): every occurrence of old goes, from the left
RECURSIVE RemoveAll(_, _)
RemoveAll(text, old) ==
    IF old = <<>> \/ Len(text) < Len(old) THEN text
    ELSE IF SubSeq(text, 1, Len(old)) = old
    THEN RemoveAll(SubSeq(text, Len(old) + 1, Len(text)), old)
    ELSE <<text[1]>> \o RemoveAll(Tail(text), old)

\* SQLiteClient.get_user_id_from_telegram(telegram_id) is not None
is_user_allowed(users, telegram_id) ==
    \E i \in 1..Len(users) : users[i].telegram_id = telegram_id

\* the loop over update.message.entities: the first mention that equals
\* "@" + bot.username ends it; [found] and the text without the mention
RECURSIVE ScanEntities(_, _)
ScanEntities(message_text, entities) ==
    IF entities = <<>> THEN [found |-> FALSE, message_text |-> message_text]
    ELSE LET entity == entities[1]
             mention == Slice(message_text, entity.offset, entity.length)
         IN  IF entity.type = "mention" /\ mention = <<"@">> \o BotUsername
             THEN [found |-> TRUE,
                   message_text |-> Strip(RemoveAll(message_text, mention))]
             ELSE ScanEntities(message_text, Tail(entities))

\* what the handler did: whether it called the tracker, with which text,
\* whether it answered, and how it ended
Gate(called, message, replied, result) ==
    [called |-> called, message |-> message, replied |-> replied, result |-> result]

\* mutant: the chat type is not looked at; every message of a registered
\* user is tracked
handler_track_activity_no_mention_test(users, user_id, chat_type, message) ==
    IF ~is_user_allowed(users, user_id)
    THEN Gate(FALSE, <<>>, chat_type = "private", "not_allowed")
    ELSE Gate(TRUE, message.text, TRUE, "type_error")

\* TelegramHandler.track_activity.  The tracker is called with user_id=,
\* a keyword ActivityTracker.track_activity does not have: the call raises
\* TypeError before the tracker does anything, and the handler answers
\* that it could not track.
handler_track_activity(users, user_id, chat_type, message) ==
    IF ~is_user_allowed(users, user_id)
    THEN Gate(FALSE, <<>>, chat_type = "private", "not_allowed")
    ELSE IF chat_type \in {"group", "supergroup"}
    THEN IF message.entities = <<>>
         THEN Gate(FALSE, <<>>, FALSE, "no_entities")
         ELSE LET scan == ScanEntities(message.text, message.entities)
              IN  IF ~scan.found
                  THEN Gate(FALSE, <<>>, FALSE, "not_mentioned")
                  ELSE Gate(TRUE, scan.message_text, TRUE, "type_error")
    ELSE Gate(TRUE, message.text, TRUE, "type_error")

\* the users table: nobody registered, or user 1
UsersTables ==
    { <<>>,
      <<[telegram_id |-> 1, first_name |-> <<"A", "l">>, last_name |-> <<"B", "o">>,
         cell |-> <<"2", "1", "2", "5", "5", "5", "0", "1", "0", "0">>,
         email |-> <<>>]>> }

\* messages handled in one behaviour
MaxGateCalls == 2

InitGate ==
    /\ grid = <<>>
    /\ last = NoCall
    /\ prev = NoCall
    /\ steps = 0
    /\ clients = <<>>
    /\ sheets = [n \in SheetNames |-> Skeleton2024]
    /\ sheets_at_start = sheets
    /\ tracker = [constructed |-> TRUE, backend |-> FALSE,
                  user_sheet_mapping |->
                      [u \in Users |-> IF u = 1 THEN "Alice" ELSE NoSheet],
                  year |-> 2024, db |-> FALSE, initialized |-> {"Alice"},
                  activities |-> LedgerActivities, entries |-> <<>>]
    /\ probe = NoProbe
    /\ bot \in {[started |-> TRUE,
                 conversations |-> [key \in ConversationKeys |-> END],
                 temp_user_data |-> [u \in BotUsers |-> NoRecord],
                 users |-> users] : users \in UsersTables}

\* a text that is no command, from a user with no registration under way:
\* the ConversationHandler lets it through to the MessageHandler of
\* track_activity
HandlerTrackActivity ==
    /\ bot.started /\ steps < MaxGateCalls
    /\ \E user_id \in BotUsers, chat_type \in ChatTypes, message \in ChatMessages :
       \E r \in {handler_track_activity(bot.users, user_id, chat_type, message)} :
        /\ last' = [NoCall EXCEPT !.op = "TelegramHandler.track_activity",
                                  !.result = r.result]
        /\ probe' = [fn |-> "TelegramHandler.track_activity", user |-> user_id,
                     chat_type |-> chat_type, update |-> message, out |-> r]
    /\ prev' = last
    /\ steps' = steps + 1
    /\ UNCHANGED <<grid, concurrent, tracker, bot>>

NextGate == HandlerTrackActivity

SpecGate == InitGate /\ [][NextGate]_vars

----------------------------------------------------------------------------
(* What the claims speak of.                                               *)

\* the calendar days of a year
DatesOfYear(year) ==
    {<<year, m, d>> : m \in 1..12, d \in 1..31} \cap
    {date \in {year} \X (1..12) \X (1..31) : date[3] <= DaysInMonth(year, date[2])}

\* the rows whose column A holds the text
RowsLabelled(g, text) == {i \in 1..Len(g) : Len(g[i]) >= 1 /\ g[i][1] = text}

\* column A below the header is the label sequence of the year, row for row
IsSkeleton(g, year) ==
    LET expected == GeneratedDates[year]
    IN  /\ Len(g) = 1 + Len(expected)
        /\ Len(g[1]) >= 1 /\ g[1][1] = "Date"
        /\ \A i \in 1..Len(expected) :
              Len(g[i + 1]) >= 1 /\ g[i + 1][1] = expected[i]

IsUpsert(call) == call.op \in {"process_new_entry_sheets", "process_new_entry"}

IsInit(call) == call.op = "initialize_year_structure"

\* C2 (as claimed): after an initialization of a year, the label the
\* initializer wrote for a day of that year is the label the row lookup
\* searches for, and the lookup finds the row of every day of the year.
C2_LabelsMatch ==
    (IsInit(last) /\ last.result = "ok") =>
        \A date \in DatesOfYear(last.year) :
            /\ LookupLabel(date) = WriteLabel(date)
            /\ get_date_row_index(grid, date) # 0

\* C4 (as claimed): whenever initialize_year_structure returns without error,
\* row 1 is the header row and column A below it is exactly the label
\* sequence of the year, row for row, with no gap.
C4_SkeletonAfterInit ==
    (IsInit(last) /\ last.result = "ok") => IsSkeleton(grid, last.year)

\* the first of a set of row indexes
First(rows) == CHOOSE i \in rows : \A j \in rows : i <= j

\* the duration held for (date, activity): the cell of the first row labelled
\* with the date, in the column of the activity; a blank or absent cell is 0
CellValue(g, date, activity) ==
    \* (the one-element sets keep each value computed once)
    LET value == {IF rows = {} \/ activity \notin Range(activities) THEN 0
                  ELSE IF IndexOf(activities, activity) + 2 > Len(g[First(rows)]) THEN 0
                  ELSE FloatOrZero(g[First(rows)][IndexOf(activities, activity) + 2]) :
                      rows \in {RowsLabelled(g, WriteLabel(date))},
                      activities \in {get_activity_columns(g)}}
    IN  CHOOSE v \in value : TRUE

Initialized(g) == \E year \in Years : IsSkeleton(g, year)

\* C1 (as claimed): on an initialized sheet, an upsert of a duration >= 0 for
\* a date whose row exists raises the cell of (date, activity) by the
\* duration and leaves the cell of every other (date, activity) as it was, so
\* that n upserts in any order add up to d1 + ... + dn.
C1_Accumulates ==
    [][ \A call \in {last'} :
        (IsUpsert(call) /\ call.duration >= 0 /\ Initialized(grid)
         /\ RowsLabelled(grid, WriteLabel(call.date)) # {})
        => \A date \in Dates, activity \in Activities :
              CellValue(grid', date, activity) =
                  CellValue(grid, date, activity)
                  + (IF date = call.date /\ activity = call.activity
                     THEN call.duration ELSE 0) ]_vars

C5_ColumnsAppendOnly ==
    [][ \A call \in {last'}, old \in {get_activity_columns(grid)},
           new \in {get_activity_columns(grid')} :
        IsUpsert(call) =>
            /\ Len(new) >= Len(old)
            /\ \A i \in 1..Len(old) : new[i] = old[i]
            /\ call.activity \in Range(old) => new = old
            /\ (call.activity \notin Range(old) /\ call.calls # <<>>
                /\ call.result # "sheet_error") => new = Append(old, call.activity) ]_vars

\* C5 witness: a second activity was added behind the first one
C5_Witness ==
    /\ IsUpsert(last) /\ "update_header_row" \in Range(last.calls)
    /\ Len(get_activity_columns(grid)) = 2
    /\ get_activity_columns(grid)[2] = last.activity
    /\ get_activity_columns(grid)[1] # last.activity

C9_UpsertFrame ==
    [][ \A call \in {last'} :
        (IsUpsert(call) /\ call.result = "ok") =>
        \A rows \in {RowsLabelled(grid, WriteLabel(call.date))} :
        /\ rows # {}
        /\ \A r \in {First(rows)}, old \in {get_activity_columns(grid)},
              col \in {IndexOf(get_activity_columns(grid'), call.activity) + 2} :
            /\ Len(grid') = Len(grid)
            /\ grid'[1] = (IF call.activity \in Range(old) THEN grid[1]
                           ELSE Append(grid[1], call.activity))
            /\ \A i \in 2..Len(grid) : i # r => grid'[i] = grid[i]
            /\ Len(grid'[r]) = Max(Len(grid[r]), col)
            /\ \A j \in 1..Len(grid'[r]) : j # col =>
                  grid'[r][j] = (IF j <= Len(grid[r]) THEN grid[r][j] ELSE NumText(0))
            /\ FloatOrZero(grid'[r][col]) =
                  (IF col <= Len(grid[r]) THEN FloatOrZero(grid[r][col]) ELSE 0)
                  + call.duration ]_vars

\* C9 witness: the activity got the second column and the row was padded
C9_Witness ==
    /\ IsUpsert(last) /\ last.result = "ok"
    /\ "update_header_row" \in Range(last.calls)
    /\ Len(get_activity_columns(grid)) = 2
    /\ get_activity_columns(grid)[2] = last.activity
    /\ CellValue(grid, last.date, last.activity) = last.duration

\* C6 (as claimed): an upsert with a duration < 0 ends with the validation
\* error before any gateway call: no call is made and the sheet is as it was.
C6_NegativeRejected ==
    [][ \A call \in {last'} :
        (IsUpsert(call) /\ call.duration < 0)
        => /\ call.result = "negative_duration"
           /\ call.calls = <<>>
           /\ grid' = grid ]_vars

\* C8: for a row of any length L and any activity_index i the padded row has
\* length max(L, i + 1), holds the L values in place and zero-valued cells
\* after them, and the cell at index i is there and reads as a number, 0
\* when the row did not reach it.
C8_RowLengthSafe ==
    probe.fn \in {"_ensure_row_length", "legacy_pad_row"} =>
        \A values \in {probe.values}, i \in {probe.required_length},
           out \in {probe.out} :
            /\ Len(out) = Max(Len(values), i + 1)
            /\ \A j \in 1..Len(values) : out[j] = values[j]
            /\ \A j \in (Len(values) + 1)..Len(out) : out[j] = NumText(0)
            /\ out[i + 1] = "" \/ IsNumText(out[i + 1])
            /\ Len(values) <= i => FloatOrZero(out[i + 1]) = 0

\* C8 witness: an empty row was padded up to the third activity
C8_Witness ==
    /\ probe.fn = "_ensure_row_length"
    /\ probe.values = <<>> /\ probe.required_length = 3
    /\ probe.out = <<NumText(0), NumText(0), NumText(0), NumText(0)>>

\* the k-th day of the year
DayOfYear(year, k) ==
    LET m == CHOOSE m \in 1..12 :
                 DaysBeforeMonth(year, m) < k
                 /\ k <= DaysBeforeMonth(year, m) + DaysInMonth(year, m)
    IN  <<year, m, k - DaysBeforeMonth(year, m)>>

WeekLabels == {WeekLabel(n) : n \in 1..53}

\* C10: in the labels generated for a year, the label of every first day of
\* a run of days of one ISO week (the first day of the year and the late
\* December days of week 1 included) comes directly after the header of that
\* week, a week header stands nowhere else, and no two headers are adjacent.
C10_WeekHeaderPlacement ==
    probe.fn \in {"_generate_dates", "get_expected_dates"} =>
        \A out \in {probe.out},
           days \in {[k \in 1..(IF IsLeap(probe.year) THEN 366 ELSE 365) |->
                         DayOfYear(probe.year, k)]} :
        \A weeks \in {[k \in DOMAIN days |-> IsoWeekNumber(days[k])]} :
        \A firsts \in {{k \in DOMAIN days : k = 1 \/ weeks[k] # weeks[k - 1]}} :
        \A pos \in {[k \in DOMAIN days |-> k + Cardinality({j \in firsts : j <= k})]} :
            /\ Len(out) = Len(days) + Cardinality(firsts)
            /\ \A k \in DOMAIN days : out[pos[k]] = WriteLabel(days[k])
            /\ \A k \in firsts : out[pos[k] - 1] = WeekLabel(weeks[k])
            /\ \A p \in 1..Len(out) :
                  out[p] \in WeekLabels <=> p \in {pos[k] - 1 : k \in firsts}
            /\ \A p \in 1..(Len(out) - 1) :
                  ~(out[p] \in WeekLabels /\ out[p + 1] \in WeekLabels)

\* C10 witness: 2024 opens with "Week 1" and closes with a second "Week 1"
\* before Monday, December 30
C10_Witness ==
    /\ probe.fn = "_generate_dates" /\ probe.year = 2024
    /\ probe.out[1] = WeekLabel(1)
    /\ probe.out[Len(probe.out) - 2] = WeekLabel(1)
    /\ probe.out[Len(probe.out) - 1] = WriteLabel(<<2024, 12, 30>>)
    /\ probe.out[Len(probe.out)] = WriteLabel(<<2024, 12, 31>>)

\* the days of a year
DaysOf(year) ==
    {DayOfYear(year, k) : k \in 1..(IF IsLeap(year) THEN 366 ELSE 365)}

\* C11: within one year no two days have the same label, as written and as
\* looked up, no day label is a week-header label, and in the generated
\* labels every day label stands once, so a lookup by text meets at most one
\* row.
C11_LabelsInjective ==
    probe.fn \in {"_generate_dates", "get_expected_dates"} =>
        \A out \in {probe.out}, days \in {DaysOf(probe.year)} :
        \A rows \in {{p \in 1..Len(out) : out[p] \notin WeekLabels}} :
            /\ Cardinality({WriteLabel(d) : d \in days}) = Cardinality(days)
            /\ Cardinality({LookupLabel(d) : d \in days}) = Cardinality(days)
            /\ \A d \in days :
                  WriteLabel(d) \notin WeekLabels /\ LookupLabel(d) \notin WeekLabels
            /\ Cardinality(rows) = Cardinality(days)
            /\ Cardinality({out[p] : p \in rows}) = Cardinality(rows)

\* C11 witness: the 366 day labels of 2024, all different
C11_Witness ==
    /\ probe.fn = "_generate_dates" /\ probe.year = 2024
    /\ Cardinality({probe.out[p] : p \in 1..Len(probe.out)} \ WeekLabels) = 366

\* both clients have ended well, having added to the same cell
SameCellDone ==
    /\ clients # <<>>
    /\ \A p \in Clients : clients[p].pc = "done" /\ clients[p].result = "ok"
    /\ clients[1].sheet_name = clients[2].sheet_name
    /\ clients[1].date = clients[2].date
    /\ clients[1].activity = clients[2].activity

\* C12: when two concurrent upserts to one cell holding v both read v, the
\* cell ends as v + d1 or as v + d2: the duration of the client that wrote
\* first is lost, the cell is not v + d1 + d2.
C12_LostUpdate ==
    SameCellDone =>
        \A c1 \in {clients[1]}, c2 \in {clients[2]} :
        \A v \in {CellValue(sheets_at_start[c1.sheet_name], c1.date, c1.activity)},
           end \in {CellValue(sheets[c1.sheet_name], c1.date, c1.activity)} :
            (c1.current_duration = v /\ c2.current_duration = v)
            => /\ end \in {v + c1.duration, v + c2.duration}
               /\ end # v + c1.duration + c2.duration

\* C12 witness: both clients read the blank cell and added 1 and 2 to it;
\* the cell holds 1, the 2 is lost
C12_Witness ==
    /\ SameCellDone
    /\ clients[1].current_duration = 0 /\ clients[2].current_duration = 0
    /\ clients[1].duration = 1 /\ clients[2].duration = 2
    /\ CellValue(sheets_at_start["Alice"], clients[1].date, clients[1].activity) = 0
    /\ CellValue(sheets["Alice"], clients[1].date, clients[1].activity) = 1

KeepsRowsAndColumns(g, h) ==
    \A old \in {get_activity_columns(g)}, new \in {get_activity_columns(h)} :
        /\ Len(h) >= Len(g)
        /\ \A i \in 1..Len(g) :
              Len(g[i]) >= 1 => (Len(h[i]) >= 1 /\ h[i][1] = g[i][1])
        /\ Len(new) >= Len(old)
        /\ \A i \in 1..Len(old) : new[i] = old[i]

\* C14 (as claimed): over any sequence of upserts and initializations no row
\* and no activity column is ever deleted and no activity changes its index.
C14_NeverDeleted ==
    [][ (IsUpsert(last') \/ IsInit(last')) => KeepsRowsAndColumns(grid, grid') ]_vars

\* C14 (amended): an upsert, and an initialization that finds the structure
\* in place, delete no row and no activity column and move no activity.
C14_NeverDeletedBetweenRebuilds ==
    [][ (IsUpsert(last')
         \/ (IsInit(last') /\ "clear_sheet" \notin Range(last'.calls)))
        => KeepsRowsAndColumns(grid, grid') ]_vars

\* C14 witness: two upserts of different activities, both columns and all
\* rows of the year in place
C14_Witness ==
    /\ IsUpsert(prev) /\ prev.result = "ok"
    /\ IsUpsert(last) /\ last.result = "ok" /\ last.activity # prev.activity
    /\ {prev.activity, last.activity} \subseteq Range(get_activity_columns(grid))
    /\ Len(grid) = 1 + Len(GeneratedDates[2024])

\* C15: a non-forced initialize_year_structure that finds column A below the
\* header equal to the labels of the year makes no gateway write: the sheet,
\* with every activity column and every duration entered, is as it was.
C15_NoOpKeepsData ==
    [][ \A call \in {last'} :
        (IsInit(call) /\ ~call.force
         /\ get_current_dates(grid) = GeneratedDates[call.year])
        => /\ call.result = "ok"
           /\ call.calls = <<"get_current_dates">>
           /\ grid' = grid ]_vars

\* C15 witness: a duration was entered, the initialization that followed
\* made one read, and the duration is still in its cell
C15_Witness ==
    /\ IsUpsert(prev) /\ prev.result = "ok" /\ prev.duration > 0
    /\ IsInit(last) /\ ~last.force /\ last.calls = <<"get_current_dates">>
    /\ prev.activity \in Range(get_activity_columns(grid))
    /\ CellValue(grid, prev.date, prev.activity) >= prev.duration

\* C16 (as claimed): a gateway call whose attempt fails with a transient
\* error is tried again, an error reaches the caller only after the bounded
\* attempts are used up or on a permanent error, and a permanent error ends
\* the call at once.
C16_RetryPolicy ==
    (probe.fn = "gateway" /\ probe.status = "raised") =>
        /\ probe.attempts <= MaxAttempts
        /\ \/ ~TransientResponse(probe.responses[probe.attempts])
           \/ probe.attempts = MaxAttempts
        /\ \A k \in 1..(probe.attempts - 1) : TransientResponse(probe.responses[k])

\* C17 (as claimed): when a gateway call of an upsert fails, the upsert ends
\* there with an error for its caller; it does not go on to further calls
\* with a value put in place of the failed read.
C17_ErrorsPropagate ==
    (probe.fn = "fault" /\ probe.failed) =>
        /\ last.result \in {"sheet_error", "http_error"}
        /\ Len(last.calls) = probe.failing

\* C18 (as claimed): an upsert that fails at any step (validation, row not
\* found, a gateway failure) leaves the sheet, header row included, exactly
\* as it was before the call.
C18_NoPartialCommit ==
    [][ \A call \in {last'} :
        (IsUpsert(call) /\ call.result # "ok") => grid' = grid ]_vars

\* the clients have ended, each on a sheet of its own
OtherSheetsDone ==
    /\ clients # <<>>
    /\ \A p \in Clients : clients[p].pc = "done"
    /\ clients[1].sheet_name # clients[2].sheet_name

\* C19: a gateway call of an upsert changes no sheet but the one the upsert
\* is for, and two concurrent upserts for different sheets, however their
\* calls interleave, end with the sheets and the results that running each
\* alone from the start gives.
C19_SurfaceIsolation ==
    [][ /\ \A n \in SheetNames :
              sheets'[n] # sheets[n] =>
                  \E p \in Clients : clients'[p] # clients[p] /\ clients[p].sheet_name = n
        /\ OtherSheetsDone' =>
              \A p \in Clients :
              \A c \in {clients'[p]} :
              \A alone \in {process_new_entry_sheets(sheets_at_start[c.sheet_name],
                                c.date, c.activity, c.duration)} :
                  /\ sheets'[c.sheet_name] = alone.grid
                  /\ c.result = alone.result ]_vars

\* C19 witness: the two clients have added 1 on "Alice" and 2 on "Bob"
C19_Witness ==
    /\ OtherSheetsDone
    /\ \A p \in Clients : clients[p].result = "ok"
    /\ \A p \in Clients :
          CellValue(sheets[clients[p].sheet_name], clients[p].date, clients[p].activity)
              = CellValue(sheets_at_start[clients[p].sheet_name], clients[p].date,
                          clients[p].activity) + clients[p].duration
    /\ sheets["Alice"] # sheets_at_start["Alice"]
    /\ sheets["Bob"] # sheets_at_start["Bob"]

\* the year structure is in place: the date column reads as the generated
\* labels of the year
StructureInPlace(g, year) ==
    _validate_current_structure(get_current_dates(g), GeneratedDates[year])

\* C20: initialization precedes upserts.  The constructor leaves the year
\* structure in place on every sheet of the user-to-sheet mapping; a
\* track_activity call that reaches the gateway works on a sheet the
\* constructor initialized and whose structure is in place; and a call for
\* a user with no mapped sheet ends in an error with no gateway call, no
\* ledger call, and the sheets and the ledger as they were.
C20_InitPrecedesUpserts ==
    [][ /\ (~tracker.constructed /\ tracker'.constructed) =>
             \A u \in Users :
                 tracker'.user_sheet_mapping[u] # NoSheet =>
                     /\ tracker'.user_sheet_mapping[u] \in tracker'.initialized
                     /\ StructureInPlace(sheets'[tracker'.user_sheet_mapping[u]],
                                         tracker'.year)
        /\ (tracker.constructed /\ steps' = steps + 1) =>
             /\ probe'.sheet_name = tracker.user_sheet_mapping[probe'.user]
             /\ last'.calls # <<>> =>
                    /\ probe'.sheet_name \in tracker.initialized
                    /\ StructureInPlace(sheets[probe'.sheet_name], tracker.year)
             /\ probe'.sheet_name = NoSheet =>
                    /\ last'.result = "no_sheet_mapping"
                    /\ last'.calls = <<>>
                    /\ probe'.ledger_calls = <<>>
                    /\ sheets' = sheets
                    /\ tracker' = tracker
      ]_vars

\* a tracker over two sheets has refused the unmapped user and then
\* accepted an upsert on the second sheet, which its constructor initialized
C20_Witness ==
    /\ tracker.constructed
    /\ prev.op = "track_activity" /\ prev.result = "no_sheet_mapping"
    /\ last.op = "track_activity" /\ last.result = "ok"
    /\ probe.fn = "track_activity" /\ probe.sheet_name = "Bob"
    /\ "Bob" \in tracker.initialized
    /\ sheets_at_start["Bob"] # sheets["Bob"]
    /\ CellValue(sheets["Bob"], last.date, last.activity) = last.duration

\* C21: the ledger is append-only.  Every step of a constructed tracker
\* keeps the entries it found, in their order; a track_activity call with a
\* ledger that returns adds exactly one entry, the one of the activity it
\* tracked, and a call that raises adds none.
C21_LedgerAppendOnly ==
    [][ (tracker.constructed /\ tracker'.constructed) =>
          \A old \in {tracker.entries} : \A new \in {tracker'.entries} :
            /\ Len(new) >= Len(old)
            /\ SubSeq(new, 1, Len(old)) = old
            /\ (tracker.db /\ last'.result = "ok") =>
                  /\ Len(new) = Len(old) + 1
                  /\ new[Len(new)].activity = last'.activity
                  /\ new[Len(new)].date = last'.date
                  /\ new[Len(new)].duration_minutes = last'.duration * 60
            /\ (~tracker.db \/ last'.result # "ok") => new = old
      ]_vars

\* the ledger holds two entries of the same user, activity and date, the
\* second added by the call that just returned
C21_Witness ==
    /\ tracker.constructed /\ tracker.db
    /\ last.op = "track_activity" /\ last.result = "ok"
    /\ Len(tracker.entries) = 2
    /\ tracker.entries[1] = tracker.entries[2]

\* both clients are past their header write, on the same sheet, each having
\* added its own category, absent when it read, to the same header
HeaderRaced ==
    /\ clients # <<>>
    /\ \A p \in Clients : clients[p].pc = "get_date_row_index"
                          /\ clients[p].activities # <<>>
    /\ clients[1].sheet_name = clients[2].sheet_name
    /\ clients[1].activity # clients[2].activity
    /\ SubSeq(clients[1].activities, 1, Len(clients[1].activities) - 1)
         = SubSeq(clients[2].activities, 1, Len(clients[2].activities) - 1)

\* C22: when two concurrent update_activities_header calls on one sheet, for
\* two distinct absent categories, both read the same header, the header
\* ends as the one the later writer wrote: one of the two categories is
\* missing from it, and both callers placed their category at the same
\* column index.
C22_HeaderRace ==
    HeaderRaced =>
        \A c1 \in {clients[1]}, c2 \in {clients[2]} :
        \A header \in {get_activity_columns(sheets[c1.sheet_name])} :
            /\ header \in {c1.activities, c2.activities}
            /\ c1.activity \notin Range(header) \/ c2.activity \notin Range(header)
            /\ IndexOf(c1.activities, c1.activity) = IndexOf(c2.activities, c2.activity)

\* C22 witness: both clients read the header without categories; Running
\* was written last and Reading is gone from the header
C22_Witness ==
    /\ HeaderRaced
    /\ get_activity_columns(sheets_at_start["Alice"]) = <<>>
    /\ clients[1].activities = <<"Running">>
    /\ clients[2].activities = <<"Reading">>
    /\ get_activity_columns(sheets["Alice"]) = <<"Running">>

NoDuplicate(seq) ==
    \A i, j \in 1..Len(seq) : seq[i] = seq[j] => i = j

\* C25: update_activities_header for a category that stands in the header,
\* letter for letter, writes no header and leaves the sheet as it was; for
\* a category that does not (were it only by the case of a letter) it puts
\* the category after the others; and no sequence of calls makes the
\* header hold a category twice.
C25_HeaderIdempotent ==
    [][ \A call \in {last'} : \A old \in {get_activity_columns(grid)} :
        call.op = "update_activities_header" =>
            /\ call.activity \in Range(old) =>
                  /\ grid' = grid
                  /\ call.calls = <<"get_activity_columns">>
            /\ (call.activity \notin Range(old) /\ call.result = "ok") =>
                  get_activity_columns(grid') = old \o <<call.activity>>
            /\ NoDuplicate(get_activity_columns(grid')) ]_vars

\* C25 witness: Running was added, then asked for again; the second call
\* read the header and wrote nothing
C25_Witness ==
    /\ prev.op = "update_activities_header" /\ prev.activity = "Running"
    /\ "update_header_row" \in Range(prev.calls)
    /\ last.op = "update_activities_header" /\ last.activity = "Running"
    /\ last.calls = <<"get_activity_columns">>
    /\ Len(SelectSeq(get_activity_columns(grid), LAMBDA a : a = "Running")) = 1

\* C26: nothing of the header or the rows is kept between calls.  Every
\* upsert that passes the duration test starts with a read of the header and
\* reads column A; an upsert that returns raises the cell that the date and
\* the category address in the sheet as it stands at the call, whatever
\* columns another writer inserted since the call before, and leaves the
\* cell of every other category of that row as it was.
C26_NoClientCache ==
    [][ \A call \in {last'} :
        call.op = "process_new_entry_sheets" =>
            /\ call.duration >= 0 =>
                  /\ call.calls[1] = "get_activity_columns"
                  /\ "get_date_row_index" \in Range(call.calls)
            /\ call.result = "ok" =>
                  \A activity \in Activities \cup {InsertedActivity} :
                      CellValue(grid', call.date, activity) =
                          CellValue(grid, call.date, activity)
                          + (IF activity = call.activity THEN call.duration ELSE 0)
      ]_vars

\* C26 witness: after a first upsert the other writer inserted a column; the
\* second upsert found its category one column further right and added there
C26_Witness ==
    /\ steps = 3
    /\ prev.op = "other_writer"
    /\ last.op = "process_new_entry_sheets" /\ last.result = "ok"
    /\ get_activity_columns(grid)[1] = InsertedActivity
    /\ CellValue(grid, last.date, InsertedActivity) = 0
    /\ CellValue(grid, last.date, last.activity) >= 2

\* both clients have ended well, having added to two cells of the same row
SameRowDone ==
    /\ clients # <<>>
    /\ \A p \in Clients : clients[p].pc = "done" /\ clients[p].result = "ok"
    /\ clients[1].sheet_name = clients[2].sheet_name
    /\ clients[1].date = clients[2].date
    /\ clients[1].activity # clients[2].activity

\* the row client c wrote held, in the column of the other client o, the
\* value that cell had before both started
WroteStale(c, o) ==
    \A header \in {get_activity_columns(sheets[c.sheet_name])} :
        /\ o.activity \in Range(header)
        /\ IndexOf(header, o.activity) + 2 <= Len(c.current_values)
        /\ FloatOrZero(c.current_values[IndexOf(header, o.activity) + 2])
             = CellValue(sheets_at_start[c.sheet_name], o.date, o.activity)

\* C27: when two concurrent upserts on one row, for two categories, each
\* wrote back a row holding the old value of the other's cell, the row ends
\* as the later writer wrote it: one cell has its duration added, the other
\* is back at its old value, its contribution lost.
C27_CrossCategoryRace ==
    (SameRowDone /\ WroteStale(clients[1], clients[2])
                 /\ WroteStale(clients[2], clients[1])) =>
        \A c1 \in {clients[1]}, c2 \in {clients[2]} :
        \A v1 \in {CellValue(sheets_at_start[c1.sheet_name], c1.date, c1.activity)},
           v2 \in {CellValue(sheets_at_start[c1.sheet_name], c2.date, c2.activity)},
           e1 \in {CellValue(sheets[c1.sheet_name], c1.date, c1.activity)},
           e2 \in {CellValue(sheets[c1.sheet_name], c2.date, c2.activity)} :
            \/ e1 = v1 + c1.duration /\ e2 = v2
            \/ e1 = v1 /\ e2 = v2 + c2.duration

\* C27 witness: Running had risen from 0 to 1 by the first row write; the
\* second, made for Reading with the row read before, put it back to 0
C27_Witness ==
    /\ SameRowDone
    /\ clients[1].activity = "Running" /\ clients[2].activity = "Reading"
    /\ clients[1].current_duration = 0
    /\ FloatOrZero(clients[1].current_values[2]) = 1
    /\ CellValue(sheets["Alice"], clients[1].date, "Running") = 0
    /\ CellValue(sheets_at_start["Alice"], clients[2].date, "Reading") = 2
    /\ CellValue(sheets["Alice"], clients[2].date, "Reading") = 4

\* the hours the first n activities of the message add to (date, activity)
RECURSIVE HoursOf(_, _, _, _)
HoursOf(message, n, date, activity) ==
    IF n = 0 THEN 0
    ELSE HoursOf(message, n - 1, date, activity)
         + (IF message[n].date = date /\ message[n].activity = activity
            THEN message[n].duration ELSE 0)

\* the sheet holds what the first n activities of the message add, and
\* nothing of the later ones
GridHolds(n) ==
    \A a \in ParsedActivities :
        CellValue(sheets[probe.sheet_name], a.date, a.activity)
          = CellValue(sheets_at_start[probe.sheet_name], a.date, a.activity)
            + HoursOf(probe.message, n, a.date, a.activity)

\* C28: at every moment of a track_activity call with a ledger, the ledger
\* entries of the message are its first k activities, in list order, and
\* the sheet holds the first k or the first k + 1 activities: an entry is
\* inserted only after the upsert of its activity returned, the sheet is
\* ahead of the ledger by at most one activity, and after a failure nothing
\* more of the message is applied.
C28_DualWriteOrder ==
    (probe.fn = "track_activity" /\ tracker.constructed /\ tracker.db
     /\ probe.sheet_name # NoSheet) =>
        \A entries \in {tracker.entries} : \A message \in {probe.message} :
            /\ Len(entries) <= Len(message)
            /\ \A k \in 1..Len(entries) :
                  /\ entries[k].activity = message[k].activity
                  /\ entries[k].date = message[k].date
                  /\ entries[k].duration_minutes = message[k].duration * 60
            /\ \/ GridHolds(Len(entries))
               \/ Len(entries) < Len(message) /\ GridHolds(Len(entries) + 1)
            /\ probe.pc = "done" =>
                  Len(entries) = Len(message) /\ GridHolds(Len(message))

\* C28 witness: the first activity is in the sheet and in the ledger, the
\* second is in the sheet and not yet in the ledger
C28_Witness ==
    /\ probe.fn = "track_activity" /\ probe.pc = "process_new_entry"
    /\ tracker.constructed /\ tracker.db
    /\ probe.i = 2
    /\ Len(tracker.entries) = 1
    /\ probe.message[1] # probe.message[2]
    /\ GridHolds(2) /\ ~GridHolds(1)

\* the call was cut short by a failing gateway call after its clear_sheet
AbortedAfterClear(call) ==
    /\ IsInit(call) /\ call.result = "sheet_error"
    /\ "clear_sheet" \in Range(SubSeq(call.calls, 1, Len(call.calls) - 1))

WeekRowsBare(g) ==
    \A i \in 1..Len(g) :
        Len(g[i]) >= 2 =>
            (g[i][1] \in WeekLabels => \A j \in 2..Len(g[i]) : g[i][j] = "")

\* C30: an upsert on a sheet that holds the label sequence of a year with
\* bare week-header rows leaves every week-header row bare, leaves the number
\* of rows and column A as they were, and below the header row changes no
\* row but the one whose column A is the label of the target date; the
\* sheet it leaves is again such a sheet, so this carries over any sequence
\* of upserts.
C30_WeekRowsStayBare ==
    [][ \A call \in {last'} :
          (IsUpsert(call) /\ steps' = steps + 1
           /\ Initialized(grid) /\ WeekRowsBare(grid))
          => /\ Len(grid') = Len(grid)
             /\ \A i \in 1..Len(grid) : grid'[i][1] = grid[i][1]
             /\ \A i \in 2..Len(grid) :
                   grid'[i] # grid[i] => grid[i][1] = LookupLabel(call.date)
             /\ WeekRowsBare(grid')
             /\ call.result = "ok" =>
                   \E i \in 2..Len(grid) : /\ grid'[i] # grid[i]
                                            /\ grid[i][1] = LookupLabel(call.date)
      ]_vars

\* C30 witness: two upserts in a row have entered durations for Monday,
\* January 15 on the 2024 sheet; the "Week 3" row directly above the row
\* written still holds its label alone
C30_Witness ==
    /\ IsUpsert(prev) /\ prev.result = "ok" /\ prev.date = <<2024, 1, 15>>
    /\ IsUpsert(last) /\ last.result = "ok" /\ last.date = <<2024, 1, 15>>
    /\ last.activity # prev.activity
    /\ IsSkeleton(grid, 2024)
    /\ WeekRowsBare(grid)
    /\ \A i \in {get_date_row_index(grid, last.date)} :
          /\ i > 2
          /\ grid[i - 1] = <<WeekLabel(3)>>
          /\ Len(grid[i]) >= 3
          /\ CellValue(grid, last.date, last.activity) = last.duration
          /\ CellValue(grid, prev.date, prev.activity) >= prev.duration

\* occurrences of x in seq
Count(seq, x) == Cardinality({i \in 1..Len(seq) : seq[i] = x})

\* C31: whatever the number of categories in the header, after
\* update_activities_header has returned without error the header read by
\* get_activity_columns holds the category exactly once; and an upsert whose
\* header step returned goes on to find the column of its category: it does
\* not end in the ValueError of activities.index.
C31_EnsureColumnAnyWidth ==
    [][ \A call \in {last'} : \A header \in {get_activity_columns(grid')} :
          /\ (call.op = "update_activities_header" /\ call.result = "ok")
                => Count(header, call.activity) = 1
          /\ (IsUpsert(call) /\ steps' = steps + 1
              /\ "get_date_row_index" \in Range(call.calls))
                => /\ Count(header, call.activity) = 1
                   /\ call.result # "value_error"
                   /\ "update_row" \in Range(call.calls)
      ]_vars

\* C31 witness: an upsert found 23 categories in the header, added the 24th
\* in column Y, and entered its duration under it
C31_Witness ==
    /\ IsUpsert(last) /\ last.result = "ok"
    /\ last.activity = CategoryName(24)
    /\ "update_header_row" \in Range(last.calls)
    /\ \A header \in {get_activity_columns(grid)} :
          /\ Len(header) = 24
          /\ header[24] = last.activity
          /\ Count(header, last.activity) = 1
    /\ CellValue(grid, last.date, last.activity) = last.duration

\* C32 (as claimed): a process_new_entry call with a ledger leaves an
\* activity record for (user, category), creating it exactly when there was
\* none (the first use of a category included), and appends one entry that
\* refers to it.
C32_ActivityRecords ==
    [][ \A call \in {last'} :
          (tracker.constructed /\ tracker.db
           /\ call.op = "track_activity" /\ steps' = steps + 1
           /\ "get_user_activity_id_from_activity" \in Range(probe'.ledger_calls))
          => \A pair \in {<<probe'.user, call.activity>>} :
             \A new \in {tracker'.entries} :
                /\ tracker'.activities = tracker.activities \cup {pair}
                /\ Len(new) = Len(tracker.entries) + 1
                /\ new[Len(new)].user_id = pair[1]
                /\ new[Len(new)].activity = pair[2]
      ]_vars

\* C33: the users table grows only by the row that handle_confirmation
\* inserts for the sender of a "confirm" in AWAITING_CONFIRMATION; a
\* conversation enters AWAITING_FULL_NAME only from none by /register,
\* AWAITING_EMAIL only from AWAITING_FULL_NAME by a text that
\* parse_full_name accepts, AWAITING_CELL only from AWAITING_EMAIL by
\* handle_email, AWAITING_CONFIRMATION only from AWAITING_CELL by a text
\* that validate_and_format_us_phone accepts; a name or a number that is
\* not accepted leaves the conversation where it is and the record as it
\* was; "restart" and /cancel leave the users table as it was.
C33_OnboardingOrder ==
    [][ (bot.started /\ bot'.started /\ steps' = steps + 1) =>
        \A call \in {last'} : \A upd \in {probe'} :
        \A key \in ConversationKeys :
        \A from \in {bot.conversations[key]} : \A to \in {bot'.conversations[key]} :
          /\ bot'.users # bot.users =>
                /\ call.op = "handle_confirmation" /\ upd.data = "confirm"
                /\ bot.conversations[upd.key] = "AWAITING_CONFIRMATION"
                /\ Len(bot'.users) = Len(bot.users) + 1
                /\ SubSeq(bot'.users, 1, Len(bot.users)) = bot.users
                /\ bot'.users[Len(bot'.users)].telegram_id = upd.key[2]
          /\ key # upd.key => to = from
          /\ (to # from /\ to = "AWAITING_FULL_NAME") =>
                from = END /\ call.op = "start_registration"
          /\ (to # from /\ to = "AWAITING_EMAIL") =>
                /\ from = "AWAITING_FULL_NAME" /\ call.op = "handle_full_name"
                /\ parse_full_name(upd.text).is_valid
          /\ (to # from /\ to = "AWAITING_CELL") =>
                from = "AWAITING_EMAIL" /\ call.op = "handle_email"
          /\ (to # from /\ to = "AWAITING_CONFIRMATION") =>
                /\ from = "AWAITING_CELL" /\ call.op = "handle_cell"
                /\ validate_and_format_us_phone(upd.text).is_valid
          /\ (key = upd.key /\ call.op = "handle_full_name"
              /\ ~parse_full_name(upd.text).is_valid) =>
                to = from /\ bot'.temp_user_data = bot.temp_user_data
          /\ (key = upd.key /\ call.op = "handle_cell"
              /\ ~validate_and_format_us_phone(upd.text).is_valid) =>
                to = from /\ bot'.temp_user_data = bot.temp_user_data
          /\ (call.op = "cancel_registration" \/ upd.data = "restart") =>
                bot'.users = bot.users
      ]_vars

\* C33 witness: /register, a name, an address, a number and "confirm" in
\* one chat have put the user into the users table, with the name parsed
\* and the number as typed
C33_Witness ==
    /\ bot.started
    /\ last.op = "handle_confirmation" /\ last.result = "ok"
    /\ prev.op = "handle_cell" /\ prev.result = "ok"
    /\ steps = 5
    /\ Len(bot.users) = 1
    /\ bot.users[1].telegram_id = probe.key[2]
    /\ bot.users[1].first_name = <<"A", "l">>
    /\ bot.users[1].last_name = <<"B", "o">>
    /\ bot.users[1].email = <<"a", "@", "b">>
    /\ validate_and_format_us_phone(bot.users[1].cell).is_valid
    /\ bot.conversations[probe.key] = END

\* C34 (as claimed): after every update, a user with a registration
\* conversation that has not ended has a record in temp_user_data, and no
\* handler has met a missing record; and whenever a conversation ends, the
\* record of its user is gone.
C34_TempRecordHeld ==
    [][ (bot.started /\ bot'.started) =>
          /\ \A key \in ConversationKeys :
                bot'.conversations[key] # END => bot'.temp_user_data[key[2]].present
          /\ last'.result # "key_error"
          /\ \A key \in ConversationKeys :
                (bot.conversations[key] # END /\ bot'.conversations[key] = END)
                    => ~bot'.temp_user_data[key[2]].present
      ]_vars

\* the text carries an entity of type mention whose characters are "@" and
\* the bot's username
MentionsBot(message) ==
    \E i \in 1..Len(message.entities) :
        /\ message.entities[i].type = "mention"
        /\ Slice(message.text, message.entities[i].offset,
                 message.entities[i].length) = <<"@">> \o BotUsername

\* C35: the handler calls the tracker's track_activity exactly when the
\* sender is in the users table and, in a group or supergroup, the message
\* mentions the bot by its username; a handler run that makes no call
\* leaves the sheets and the ledger as they were.
C35_FrontEndGating ==
    [][ \A upd \in {probe'} :
          (upd.fn = "TelegramHandler.track_activity" /\ steps' = steps + 1) =>
            /\ upd.out.called <=>
                  /\ is_user_allowed(bot.users, upd.user)
                  /\ upd.chat_type \in {"group", "supergroup"} => MentionsBot(upd.update)
            /\ ~upd.out.called =>
                  /\ sheets' = sheets /\ grid' = grid
                  /\ tracker' = tracker
      ]_vars

\* C35 witness: in a group a registered user mentioned someone else and
\* then the bot; the tracker was called with the text without the mention
C35_Witness ==
    /\ probe.fn = "TelegramHandler.track_activity"
    /\ probe.chat_type = "group"
    /\ is_user_allowed(bot.users, probe.user)
    /\ Len(probe.update.entities) = 2
    /\ probe.out.called
    /\ probe.out.message = <<"@", "b", "o", "b", " ", " ", "h", "i">>

====
